---- MODULE Spec2Model ----
(***************************************************************************)
(* Model of the remgen content generators and of the weighted dispatch     *)
(* that the web routes perform over them.                                  *)
(*                                                                         *)
(* Text is a sequence of one-character strings.  A missing CSV cell, which *)
(* pandas reads as the float NaN, is the one-element sequence NaN.         *)
(* random.random() is an integer number of hundredths, 0..99, so that the  *)
(* thresholds 0.2, 0.4, ... are 20, 40, ...                                *)
(***************************************************************************)
EXTENDS Integers, Sequences, FiniteSets, TLC

\* ------------------------------------------------------------------ text

NaN == <<"NaN">>

Digits == {"0", "1", "2", "3", "4", "5", "6", "7", "8", "9"}

\* str.lower() on one character (the alphabet holds the capitals O and P only)
LowerChar(c) == IF c = "O" THEN "o" ELSE IF c = "P" THEN "p" ELSE c

Lower(s) == [i \in 1..Len(s) |-> LowerChar(s[i])]

Letters == {"a", "b", "c", "d", "e", "f", "g", "h", "i", "j", "k", "l", "m", "n", "o",
            "p", "q", "r", "s", "t", "u", "v", "w", "x", "y", "z", "O", "P"}

\* \w of the re module
IsWord(c) == c \in Letters \/ c \in Digits \/ c = "_"

\* \s of the re module
IsSpace(c) == c \in {" ", "\n", "\t", "\r"}

StartsWith(s, p) == Len(s) >= Len(p) /\ SubSeq(s, 1, Len(p)) = p

StartsWithI(s, p) == Len(s) >= Len(p) /\ Lower(SubSeq(s, 1, Len(p))) = Lower(p)

EndsWithI(s, p) ==
    Len(s) >= Len(p) /\ Lower(SubSeq(s, Len(s) - Len(p) + 1, Len(s))) = Lower(p)

Drop(s, n) == SubSeq(s, n + 1, Len(s))

\* the least and the greatest position of a set of positions
Min(S) == CHOOSE i \in S : \A j \in S : i <= j

Max(S) == CHOOSE i \in S : \A j \in S : j <= i

\* index of the first c in s, 0 when there is none
RECURSIVE FindFrom(_, _, _)
FindFrom(s, c, i) ==
    IF i > Len(s) THEN 0 ELSE IF s[i] = c THEN i ELSE FindFrom(s, c, i + 1)

\* length of the run of characters of set S at the head of s
RECURSIVE RunLen(_, _)
RunLen(s, S) == IF s = <<>> \/ s[1] \notin S THEN 0 ELSE 1 + RunLen(Tail(s), S)

\* str.replace(pat, rep) and re.sub of a literal pattern
RECURSIVE ReplaceAll(_, _, _)
ReplaceAll(s, pat, rep) ==
    LET hits == {i \in 1..(Len(s) - Len(pat) + 1) : SubSeq(s, i, i + Len(pat) - 1) = pat}
    IN  IF hits = {} THEN s
        ELSE SubSeq(s, 1, Min(hits) - 1) \o rep
                 \o ReplaceAll(Drop(s, Min(hits) + Len(pat) - 1), pat, rep)

\* re.sub of a literal pattern with re.IGNORECASE
RECURSIVE RemoveAllI(_, _)
RemoveAllI(s, pat) ==
    IF Len(s) < Len(pat) \/ s = <<>> THEN s
    ELSE IF StartsWithI(s, pat) THEN RemoveAllI(Drop(s, Len(pat)), pat)
    ELSE <<s[1]>> \o RemoveAllI(Tail(s), pat)

\* str.strip()
RECURSIVE LStrip(_)
LStrip(s) == IF s # <<>> /\ IsSpace(s[1]) THEN LStrip(Tail(s)) ELSE s

RECURSIVE RStrip(_)
RStrip(s) ==
    IF s # <<>> /\ IsSpace(s[Len(s)]) THEN RStrip(SubSeq(s, 1, Len(s) - 1)) ELSE s

Strip(s) == RStrip(LStrip(s))

\* ------------------------------------------- EnhancedUltimateEdgeGenerator: text

\* html.unescape, one left-to-right pass over the named references the alphabet
\* can spell: &gt &lt &amp, each with or without its semicolon
RECURSIVE Unescape(_)
Unescape(s) ==
    IF s = <<>> THEN s
    ELSE IF StartsWith(s, <<"&", "g", "t", ";">>) THEN <<">">> \o Unescape(Drop(s, 4))
    ELSE IF StartsWith(s, <<"&", "g", "t">>) THEN <<">">> \o Unescape(Drop(s, 3))
    ELSE IF StartsWith(s, <<"&", "l", "t", ";">>) THEN <<"<">> \o Unescape(Drop(s, 4))
    ELSE IF StartsWith(s, <<"&", "l", "t">>) THEN <<"<">> \o Unescape(Drop(s, 3))
    ELSE IF StartsWith(s, <<"&", "a", "m", "p", ";">>) THEN <<"&">> \o Unescape(Drop(s, 5))
    ELSE IF StartsWith(s, <<"&", "a", "m", "p">>) THEN <<"&">> \o Unescape(Drop(s, 4))
    ELSE <<s[1]>> \o Unescape(Tail(s))

\* re.sub(r'<[^>]+>', '', text)
RECURSIVE RemoveTags(_)
RemoveTags(s) ==
    IF s = <<>> THEN s
    ELSE IF s[1] = "<" /\ Len(s) >= 3 /\ s[2] # ">" /\ FindFrom(s, ">", 3) # 0
         THEN RemoveTags(Drop(s, FindFrom(s, ">", 3)))
    ELSE <<s[1]>> \o RemoveTags(Tail(s))

\* re.sub(r'\b\d+\b', '', text): a maximal run of digits with no word character
\* on either side; i is the position scanned, s[i-1] the character before it
RECURSIVE RemoveNumbersFrom(_, _)
RemoveNumbersFrom(s, i) ==
    LET starts == {k \in i..Len(s) : s[k] \in Digits /\ (k = 1 \/ ~IsWord(s[k - 1]))}
    IN  IF starts = {} THEN SubSeq(s, i, Len(s))
        ELSE LET k == Min(starts)
                 j == k + RunLen(Drop(s, k - 1), Digits) - 1
             IN  IF j = Len(s) \/ ~IsWord(s[j + 1])
                 THEN SubSeq(s, i, k - 1) \o RemoveNumbersFrom(s, j + 1)
                 ELSE SubSeq(s, i, j) \o RemoveNumbersFrom(s, j + 1)

RemoveNumbers(s) == RemoveNumbersFrom(s, 1)

\* re.sub(r'>>?\d+', '', text)
RECURSIVE RemovePostRefs(_)
RemovePostRefs(s) ==
    IF s = <<>> THEN s
    ELSE IF s[1] = ">" /\ Len(s) >= 3 /\ s[2] = ">" /\ s[3] \in Digits
         THEN RemovePostRefs(Drop(s, 2 + RunLen(Drop(s, 2), Digits)))
    ELSE IF s[1] = ">" /\ Len(s) >= 2 /\ s[2] \in Digits
         THEN RemovePostRefs(Drop(s, 1 + RunLen(Drop(s, 1), Digits)))
    ELSE <<s[1]>> \o RemovePostRefs(Tail(s))

\* re.sub(r'\bWORD\b', '', text, flags=re.IGNORECASE)
RECURSIVE RemoveWordIFrom(_, _, _)
RemoveWordIFrom(s, w, i) ==
    IF i > Len(s) THEN <<>>
    ELSE IF /\ StartsWithI(Drop(s, i - 1), w)
            /\ (i = 1 \/ ~IsWord(s[i - 1]))
            /\ (i + Len(w) > Len(s) \/ ~IsWord(s[i + Len(w)]))
         THEN RemoveWordIFrom(s, w, i + Len(w))
    ELSE <<s[i]>> \o RemoveWordIFrom(s, w, i + 1)

RemoveWordI(s, w) == RemoveWordIFrom(s, w, 1)

\* the /board/ names of board_patterns, in the order of the list
BoardNames ==
    << <<"/", "p", "o", "l", "/">>, <<"/", "r", "9", "k", "/">>, <<"/", "b", "/">>,
       <<"/", "x", "/">>, <<"/", "f", "i", "t", "/">>, <<"/", "v", "/">>,
       <<"/", "t", "v", "/">>, <<"/", "a", "/">>, <<"/", "a", "d", "v", "/">>,
       <<"/", "o", "/">>, <<"/", "c", "k", "/">>, <<"/", "g", "/">>,
       <<"/", "m", "u", "/">>, <<"/", "l", "i", "t", "/">>,
       <<"/", "h", "i", "s", "/">>, <<"/", "s", "c", "i", "/">> >>

\* the \bword\b entries of board_patterns, in the order of the list
BoardWords ==
    << <<"O", "P">>, <<"4", "c", "h", "a", "n">>, <<"t", "h", "r", "e", "a", "d">>,
       <<"b", "o", "a", "r", "d">> >>

RECURSIVE RemoveBoardNames(_, _)
RemoveBoardNames(s, k) ==
    IF k > Len(BoardNames) THEN s
    ELSE CHOOSE r \in {RemoveBoardNames(t, k + 1) : t \in {RemoveAllI(s, BoardNames[k])}} : TRUE

RECURSIVE RemoveBoardWords(_, _)
RemoveBoardWords(s, k) ==
    IF k > Len(BoardWords) THEN s
    ELSE CHOOSE r \in {RemoveBoardWords(t, k + 1) : t \in {RemoveWordI(s, BoardWords[k])}} : TRUE

\* re.sub(r'\s+', ' ', text)
RECURSIVE NormalizeSpace(_)
NormalizeSpace(s) ==
    LET spaces == {i \in 1..Len(s) : IsSpace(s[i])}
    IN  IF spaces = {} THEN s
        ELSE LET rest == Drop(s, Min(spaces) - 1)
             IN  SubSeq(s, 1, Min(spaces) - 1) \o <<" ">>
                     \o NormalizeSpace(Drop(rest, RunLen(rest, {" ", "\n", "\t", "\r"})))

\* (kek|based|cringe|cope|seethe)
Artifacts ==
    << <<"k", "e", "k">>, <<"b", "a", "s", "e", "d">>, <<"c", "r", "i", "n", "g", "e">>,
       <<"c", "o", "p", "e">>, <<"s", "e", "e", "t", "h", "e">> >>

\* re.sub(r'^(kek|based|cringe|cope|seethe)\s*', '', text, flags=re.IGNORECASE)
RECURSIVE RemoveArtifactPrefix(_, _)
RemoveArtifactPrefix(s, k) ==
    IF k > Len(Artifacts) THEN s
    ELSE IF StartsWithI(s, Artifacts[k]) THEN LStrip(Drop(s, Len(Artifacts[k])))
    ELSE RemoveArtifactPrefix(s, k + 1)

\* re.sub(r'\s*(kek|based|cringe|cope|seethe)$', '', text, flags=re.IGNORECASE)
RECURSIVE RemoveArtifactSuffix(_, _)
RemoveArtifactSuffix(s, k) ==
    IF k > Len(Artifacts) THEN s
    ELSE IF EndsWithI(s, Artifacts[k])
         THEN RStrip(SubSeq(s, 1, Len(s) - Len(Artifacts[k])))
    ELSE RemoveArtifactSuffix(s, k + 1)

\* EnhancedUltimateEdgeGenerator.clean_edge_for_output, on a str; every step of
\* the pipeline works on the value the step before it produced
clean_edge_for_output(content) ==
    IF content = <<>> THEN <<>>
    ELSE LET s1 == {RemoveTags(t) : t \in {Unescape(content)}}
             s2 == {RemoveNumbers(t) : t \in s1}
             s3 == {RemovePostRefs(t) : t \in s2}
             s4 == {RemoveBoardWords(t, 1) : t \in {RemoveBoardNames(u, 1) : u \in s3}}
             s5 == {ReplaceAll(t, <<">">>, <<>>) : t \in s4}
             s6 == {Strip(t) : t \in {NormalizeSpace(u) : u \in s5}}
             s7 == {RemoveArtifactPrefix(t, 1) : t \in s6}
         IN  CHOOSE r \in {RemoveArtifactSuffix(t, 1) : t \in s7} : TRUE

\* len(content) < 10 of apply_length_constraints
MinLen == 10

\* len(content) > 280 of apply_length_constraints
MaxLen == 280

\* content[:277] of apply_length_constraints
TruncLen == 277

\* index of the last c in s, 0 when there is none
RFind(s, c, i) ==
    LET hits == {k \in 1..i : s[k] = c}
    IN  IF hits = {} THEN 0 ELSE Max(hits)

\* apply_length_constraints with the cut at the limit itself, before the ellipsis
apply_length_constraints_cut_at_limit(content) ==
    IF Len(content) < MinLen THEN <<>>
    ELSE IF Len(content) > MaxLen
         THEN LET truncated == SubSeq(content, 1, MaxLen)
                  dot == RFind(truncated, ".", Len(truncated))
                  comma == RFind(truncated, ",", Len(truncated))
              IN  IF dot # 0 THEN SubSeq(truncated, 1, dot - 1) \o <<".">>
                  ELSE IF comma # 0 THEN SubSeq(truncated, 1, comma - 1)
                  ELSE truncated \o <<".", ".", ".">>
    ELSE content

\* apply_length_constraints with the limit itself cut
apply_length_constraints_cuts_limit(content) ==
    IF Len(content) < MinLen THEN <<>>
    ELSE IF Len(content) >= MaxLen
         THEN LET truncated == SubSeq(content, 1, TruncLen)
                  dot == RFind(truncated, ".", Len(truncated))
                  comma == RFind(truncated, ",", Len(truncated))
              IN  IF dot # 0 THEN SubSeq(truncated, 1, dot - 1) \o <<".">>
                  ELSE IF comma # 0 THEN SubSeq(truncated, 1, comma - 1)
                  ELSE truncated \o <<".", ".", ".">>
    ELSE content

\* EnhancedUltimateEdgeGenerator.apply_length_constraints
apply_length_constraints(content) ==
    IF Len(content) < MinLen THEN <<>>
    ELSE IF Len(content) > MaxLen
         THEN LET truncated == SubSeq(content, 1, TruncLen)
                  dot == RFind(truncated, ".", Len(truncated))
                  comma == RFind(truncated, ",", Len(truncated))
              IN  IF dot # 0 THEN SubSeq(truncated, 1, dot - 1) \o <<".">>
                  ELSE IF comma # 0 THEN SubSeq(truncated, 1, comma - 1)
                  ELSE truncated \o <<".", ".", ".">>
    ELSE content

\* ---------------------------------------- EnhancedUltimateEdgeGenerator: store

\* the rows a dataset file is made of: content, category, quality_score
TxtHot == <<"h", "o", "t", " ", "t", "a", "k", "e", "s", ",", " ", "o", "k", ".">>

TxtBased ==
    <<"b", "a", "s", "e", "d", " ", "a", "n", "d", " ", "t", "r", "u", "e", " ", "t", "a",
      "k", "e">>

TxtWake == <<"w", "a", "k", "e", " ", "u", "p", ",", " ", "a", "n", "o", "n", ".">>

TxtRef == <<">", ">", "1", "2", "3">>

TxtShort == <<">", ">", "1", "2", " ", "l", "o", "l", " ", ">", "a">>

EdgeRows ==
    << [content |-> TxtHot,   category |-> "general_edge",   quality_score |-> 9],
       [content |-> TxtBased, category |-> "general_edge",   quality_score |-> 5],
       [content |-> TxtWake,  category |-> "political_edge", quality_score |-> 6],
       [content |-> TxtRef,   category |-> "general_edge",   quality_score |-> 3],
       [content |-> TxtShort, category |-> "sexual_edge",    quality_score |-> 7],
       [content |-> NaN,      category |-> "general_edge",   quality_score |-> 8] >>

\* rows per dataset file
MaxRows == 3

\* the datasets load_edge_dataset can read: df is the set of its row labels; a
\* missing, unreadable or zero-row file gives the empty DataFrame
EdgeStores == {S \in SUBSET (1..Len(EdgeRows)) : Cardinality(S) <= MaxRows}

\* categories of organize_content_pools, in the order of the list
Categories == <<"sexual_edge", "political_edge", "dark_humor_edge", "general_edge">>

\* quality_tiers of get_fresh_edge_content, in preference order
QualityTiers == <<"high", "medium", "good">>

\* the score predicate organize_content_pools gives each tier
InTier(tier, q) ==
    CASE tier = "high" -> q >= 8
      [] tier = "medium" -> q >= 6 /\ q < 8
      [] tier = "good" -> q >= 5

\* organize_content_pools whose medium tier has no upper bound
organize_content_pools_open_medium(frame) ==
    LET type_content(c) == {i \in frame : EdgeRows[i].category = c}
        keys == {k \in {<<Categories[c], QualityTiers[q]>> :
                            c \in 1..Len(Categories), q \in 1..Len(QualityTiers)} :
                    type_content(k[1]) # {}}
    IN  [k \in keys |->
            {i \in type_content(k[1]) :
                IF k[2] = "medium" THEN EdgeRows[i].quality_score >= 6
                ELSE InTier(k[2], EdgeRows[i].quality_score)}]

\* EnhancedUltimateEdgeGenerator.organize_content_pools: the keys are
\* <<category, tier>>; a category with rows gets all three keys
organize_content_pools(frame) ==
    LET type_content(c) == {i \in frame : EdgeRows[i].category = c}
        keys == {k \in {<<Categories[c], QualityTiers[q]>> :
                            c \in 1..Len(Categories), q \in 1..Len(QualityTiers)} :
                    type_content(k[1]) # {}}
    IN  [k \in keys |->
            {i \in type_content(k[1]) : InTier(k[2], EdgeRows[i].quality_score)}]

\* EnhancedUltimateEdgeGenerator.get_content_hash: the first 12 hex digits of the
\* md5 of the exact text
get_content_hash(content) == <<"md5", content>>

\* is_content_recent that looks the content itself up, not its hash
is_content_recent_unhashed(recent, content) == content \in recent

\* is_content_recent that finds no content recent
is_content_recent_never(recent, content) == FALSE

\* EnhancedUltimateEdgeGenerator.is_content_recent
is_content_recent(recent, content) == get_content_hash(content) \in recent

\* entries the recency set keeps (self.max_recent is 100)
EdgeMaxRecent == 2

\* track_content_usage without the cut to max_recent
track_content_usage_uncapped(recent, content) ==
    {recent \cup {get_content_hash(content)}}

\* EnhancedUltimateEdgeGenerator.track_content_usage: the sets the recency set
\* can become; list(set)[-max_recent:] keeps max_recent entries in the set's
\* iteration order, which is any order
track_content_usage(recent, content) ==
    LET added == recent \cup {get_content_hash(content)}
    IN  IF Cardinality(added) > EdgeMaxRecent
        THEN {S \in SUBSET added : Cardinality(S) = EdgeMaxRecent}
        ELSE {added}

\* EnhancedUltimateEdgeGenerator.select_generation_style: the styles
\* random.choice can return
select_generation_style(pools) ==
    LET available_styles ==
            {Categories[c] : c \in {d \in 1..Len(Categories) :
                                      \E k \in DOMAIN pools : k[1] = Categories[d]}}
    IN  IF available_styles # {} THEN available_styles ELSE {"general_edge"}

\* ------------------------------------------- SimpleEnhancedEdgeGenerator: text

\* re.sub(r'<[^>]*?>', '', text)
RECURSIVE RemoveClosedTags(_)
RemoveClosedTags(s) ==
    IF s = <<>> THEN s
    ELSE IF s[1] = "<" /\ FindFrom(s, ">", 2) # 0
         THEN RemoveClosedTags(Drop(s, FindFrom(s, ">", 2)))
    ELSE <<s[1]>> \o RemoveClosedTags(Tail(s))

\* re.sub(r'<[^>]*', '', text)
RECURSIVE RemoveOpenTags(_)
RemoveOpenTags(s) ==
    IF s = <<>> THEN s
    ELSE IF s[1] = "<"
         THEN LET close == FindFrom(s, ">", 2)
              IN  IF close = 0 THEN <<>> ELSE RemoveOpenTags(Drop(s, close - 1))
    ELSE <<s[1]>> \o RemoveOpenTags(Tail(s))

\* re.sub(r'&[a-zA-Z]+;', '', text)
RECURSIVE RemoveNamedEntities(_)
RemoveNamedEntities(s) ==
    IF s = <<>> THEN s
    ELSE IF s[1] = "&"
         THEN LET n == RunLen(Tail(s), Letters)
              IN  IF n >= 1 /\ Len(s) >= n + 2 /\ s[n + 2] = ";"
                  THEN RemoveNamedEntities(Drop(s, n + 2))
                  ELSE <<s[1]>> \o RemoveNamedEntities(Tail(s))
    ELSE <<s[1]>> \o RemoveNamedEntities(Tail(s))

\* re.sub(r'&#\d+;', '', text)
RECURSIVE RemoveNumericEntities(_)
RemoveNumericEntities(s) ==
    IF s = <<>> THEN s
    ELSE IF s[1] = "&" /\ Len(s) >= 2 /\ s[2] = "#"
         THEN LET n == RunLen(Drop(s, 2), Digits)
              IN  IF n >= 1 /\ Len(s) >= n + 3 /\ s[n + 3] = ";"
                  THEN RemoveNumericEntities(Drop(s, n + 3))
                  ELSE <<s[1]>> \o RemoveNumericEntities(Tail(s))
    ELSE <<s[1]>> \o RemoveNumericEntities(Tail(s))

\* re.sub(r'\d{6,}', '', text)
RECURSIVE RemoveLongNumbers(_)
RemoveLongNumbers(s) ==
    LET digits == {i \in 1..Len(s) : s[i] \in Digits}
    IN  IF digits = {} THEN s
        ELSE LET k == Min(digits)
                 n == RunLen(Drop(s, k - 1), Digits)
             IN  SubSeq(s, 1, IF n >= 6 THEN k - 1 ELSE k + n - 1)
                     \o RemoveLongNumbers(Drop(s, k + n - 1))

\* re.sub(r'^\d+', '', text)
RemoveLeadingDigits(s) == Drop(s, RunLen(s, Digits))

\* re.sub(r'\d+$', '', text); $ also matches before one final newline
RECURSIVE RemoveTrailingDigitsOf(_)
RemoveTrailingDigitsOf(s) ==
    IF s # <<>> /\ s[Len(s)] \in Digits
    THEN RemoveTrailingDigitsOf(SubSeq(s, 1, Len(s) - 1)) ELSE s

RemoveTrailingDigits(s) ==
    IF s # <<>> /\ s[Len(s)] = "\n"
           /\ Len(s) >= 2 /\ s[Len(s) - 1] \in Digits
    THEN RemoveTrailingDigitsOf(SubSeq(s, 1, Len(s) - 1)) \o <<"\n">>
    ELSE RemoveTrailingDigitsOf(s)

\* re.sub of a run of at least n characters c by rep
RECURSIVE SquashRuns(_, _, _, _)
SquashRuns(s, c, n, rep) ==
    IF s = <<>> THEN s
    ELSE LET k == RunLen(s, {c})
         IN  IF k >= n THEN rep \o SquashRuns(Drop(s, k), c, n, rep)
             ELSE IF k >= 1 THEN SubSeq(s, 1, k) \o SquashRuns(Drop(s, k), c, n, rep)
             ELSE <<s[1]>> \o SquashRuns(Tail(s), c, n, rep)

\* SimpleEnhancedEdgeGenerator._clean_content, on a str
simple_clean_content(content) ==
    LET s1 == {RemoveOpenTags(t) : t \in {RemoveClosedTags(content)}}
        s2 == {ReplaceAll(t, <<"&", "l", "t", ";">>, <<>>) :
                   t \in {ReplaceAll(u, <<"&", "g", "t", ";">>, <<>>) : u \in s1}}
        s3 == {ReplaceAll(t, <<"&", "q", "u", "o", "t", ";">>, <<"\"">>) :
                   t \in {ReplaceAll(u, <<"&", "a", "m", "p", ";">>, <<"&">>) : u \in s2}}
        s4 == {RemoveNumericEntities(t) : t \in {RemoveNamedEntities(u) : u \in s3}}
        s5 == {RemoveTags(t) : t \in {ReplaceAll(u, <<">">>, <<>>) : u \in s4}}
        s6 == {RemoveNumbers(t) : t \in {RemoveLongNumbers(u) : u \in s5}}
        s7 == {RemoveTrailingDigits(t) : t \in {RemoveLeadingDigits(u) : u \in s6}}
        \* '>>[0-9]+' and '>>+' find no '>' any more
        s8 == {SquashRuns(t, "\n", 1, <<" ">>) : t \in s7}
        s9 == {SquashRuns(t, "\t", 1, <<" ">>) :
                   t \in {SquashRuns(u, "\r", 1, <<" ">>) : u \in s8}}
        s10 == {SquashRuns(t, "!", 2, <<"!">>) :
                   t \in {SquashRuns(u, ".", 3, <<".", ".", ".">>) : u \in s9}}
        s11 == {NormalizeSpace(t) : t \in {SquashRuns(u, "?", 2, <<"?">>) : u \in s10}}
    IN  CHOOSE r \in {Strip(t) : t \in s11} : TRUE

\* what a call hands back: generated text, one of the fixed placeholder strings
\* (name), or an exception that leaves the call (name)
NoResult == [kind |-> "none", text |-> <<>>, name |-> ""]

Content(text) == [kind |-> "content", text |-> text, name |-> ""]

Placeholder(name) == [kind |-> "placeholder", text |-> <<>>, name |-> name]

Raised(name) == [kind |-> "raised", text |-> <<>>, name |-> name]

\* clean_edge_for_output then apply_length_constraints of every str content of
\* the dataset rows, worked out once
EdgeTexts == {EdgeRows[i].content : i \in 1..Len(EdgeRows)} \ {NaN}

CleanedEdge == [c \in EdgeTexts |-> clean_edge_for_output(c)]

FinalEdge == [c \in EdgeTexts |-> apply_length_constraints(CleanedEdge[c])]

\* -------------------------------------- SimpleEnhancedEdgeGenerator: the pools

\* pattern in text
Contains(s, pat) ==
    \E i \in 1..(Len(s) - Len(pat) + 1) : SubSeq(s, i, i + Len(pat) - 1) = pat

neet_keywords ==
    {<<"n", "e", "e", "t">>,
     <<"w", "a", "g", "e", "c", "u", "c", "k">>,
     <<"w", "a", "g", "i", "e">>,
     <<"u", "n", "e", "m", "p", "l", "o", "y", "m", "e", "n", "t">>,
     <<"p", "a", "r", "e", "n", "t", "s", " ", "b", "a", "s", "e", "m", "e", "n", "t">>,
     <<"t", "e", "n", "d", "i", "e", "s">>,
     <<"m", "o", "m", "m", "y">>,
     <<"j", "o", "b", "l", "e", "s", "s">>,
     <<"n", "o", " ", "j", "o", "b">>,
     <<"w", "e", "l", "f", "a", "r", "e">>,
     <<"l", "i", "v", "e", " ", "w", "i", "t", "h", " ", "p", "a", "r", "e", "n", "t", "s">>,
     <<"b", "a", "s", "e", "m", "e", "n", "t", " ", "d", "w", "e", "l", "l", "e", "r">>,
     <<"s", "h", "u", "t", " ", "i", "n">>,
     <<"h", "i", "k", "i", "k", "o", "m", "o", "r", "i">>,
     <<"a", "u", "t", "i", "s", "t", "i", "c">>,
     <<"s", "o", "c", "i", "a", "l", "l", "y", " ", "a", "w", "k", "w", "a", "r", "d">>,
     <<"i", "n", "c", "e", "l">>,
     <<"v", "i", "r", "g", "i", "n">>,
     <<"r", "o", "b", "o", "t">>,
     <<"t", "f", "w", " ", "n", "o", " ", "g", "f">>,
     <<"n", "e", "v", "e", "r", " ", "h", "a", "d", " ", "g", "f">>,
     <<"k", "i", "s", "s", "l", "e", "s", "s", " ", "v", "i", "r", "g", "i", "n">>}

comedic_keywords ==
    {<<"k", "e", "k">>,
     <<"l", "m", "a", "o">>,
     <<"h", "i", "l", "a", "r", "i", "o", "u", "s">>,
     <<"c", "r", "i", "n", "g", "e">>,
     <<"b", "a", "s", "e", "d">>,
     <<"c", "o", "p", "e">>,
     <<"s", "e", "e", "t", "h", "e">>,
     <<"d", "i", "l", "a", "t", "e">>,
     <<"r", "e", "n", "t", " ", "f", "r", "e", "e">>,
     <<"s", "c", "h", "i", "z", "o">>,
     <<"r", "e", "t", "a", "r", "d">>,
     <<"a", "u", "t", "i", "s", "t">>,
     <<"p", "e", "p", "e">>,
     <<"w", "o", "j", "a", "k">>,
     <<"c", "h", "a", "d">>,
     <<"g", "i", "g", "a", "c", "h", "a", "d">>,
     <<"s", "i", "g", "m", "a">>,
     <<"b", "e", "t", "a">>,
     <<"a", "l", "p", "h", "a">>,
     <<"n", "o", "r", "m", "i", "e">>,
     <<"n", "o", "r", "m", "a", "l", "f", "a", "g">>}

unhinged_keywords ==
    {<<"s", "c", "h", "i", "z", "o">>,
     <<"u", "n", "h", "i", "n", "g", "e", "d">>,
     <<"i", "n", "s", "a", "n", "e">>,
     <<"d", "e", "r", "a", "n", "g", "e", "d">>,
     <<"p", "s", "y", "c", "h", "o", "t", "i", "c">>,
     <<"m", "a", "n", "i", "c">>,
     <<"b", "r", "e", "a", "k", "d", "o", "w", "n">>,
     <<"l", "o", "s", "i", "n", "g", " ", "i", "t">>,
     <<"s", "n", "a", "p", "p", "e", "d">>,
     <<"g", "o", "i", "n", "g", " ", "c", "r", "a", "z", "y">>,
     <<"m", "e", "n", "t", "a", "l">>,
     <<"u", "n", "s", "t", "a", "b", "l", "e">>,
     <<"p", "a", "r", "a", "n", "o", "i", "d">>,
     <<"c", "o", "n", "s", "p", "i", "r", "a", "c", "y">>,
     <<"g", "l", "o", "w", "i", "n", "g">>,
     <<"g", "l", "o", "w">>,
     <<"f", "e", "d", " ", "p", "o", "s", "t", "i", "n", "g">>,
     <<"t", "i", "n", "f", "o", "i", "l">>}

political_keywords ==
    {<<"p", "o", "l">>,
     <<"r", "e", "d", "p", "i", "l", "l">>,
     <<"b", "l", "a", "c", "k", "p", "i", "l", "l">>,
     <<"w", "h", "i", "t", "e", "p", "i", "l", "l">>,
     <<"c", "l", "o", "w", "n", " ", "w", "o", "r", "l", "d">>,
     <<"h", "o", "n", "k", " ", "h", "o", "n", "k">>,
     <<"j", "o", "g", "g", "e", "r">>,
     <<"g", "o", "y", "i", "m">>,
     <<"m", "e", "r", "c", "h", "a", "n", "t">>,
     <<"n", "o", "s", "e">>,
     <<"e", "a", "r", "l", "y", " ", "l", "i", "f", "e">>,
     <<"o", "y", " ", "v", "e", "y">>,
     <<"l", "e", "f", "t", "i", "s", "t">>,
     <<"r", "i", "g", "h", "t", "o", "i", "d">>,
     <<"c", "o", "m", "m", "i", "e">>,
     <<"f", "a", "s", "c", "i", "s", "t">>,
     <<"n", "a", "z", "i">>,
     <<"j", "e", "w", "i", "s", "h">>,
     <<"i", "m", "m", "i", "g", "r", "a", "t", "i", "o", "n">>,
     <<"d", "i", "v", "e", "r", "s", "i", "t", "y">>,
     <<"m", "u", "l", "t", "i", "c", "u", "l", "t", "u", "r", "a", "l">>,
     <<"w", "o", "k", "e">>,
     <<"s", "j", "w">>}

check_priority_content(text) ==
    \E keyword \in neet_keywords \cup comedic_keywords
                     \cup unhinged_keywords \cup political_keywords :
        Contains(Lower(text), keyword)

unwanted_terms == {<<"O", "P">>, <<"t", "h", "r", "e", "a", "d">>,
                   <<"b", "o", "a", "r", "d">>}

ShortMax == 80

MediumMax == 150

OutputMax == 200

OutputTrunc == 197

\* clean_content_for_output
simple_clean_content_for_output(content) ==
    IF content = <<>> THEN content
    ELSE LET s1 == {Strip(t) : t \in {ReplaceAll(content, <<">">>, <<>>)}}
             s2 == {RemoveNumbers(t) : t \in {RemoveLongNumbers(u) : u \in s1}}
             s3 == {RemoveTrailingDigits(t) : t \in {RemoveLeadingDigits(u) : u \in s2}}
             s4 == {Strip(t) : t \in {NormalizeSpace(u) : u \in s3}}
             s5 == {IF Len(t) > OutputMax
                    THEN SubSeq(t, 1, OutputTrunc) \o <<".", ".", ".">> ELSE t : t \in s4}
         IN  CHOOSE r \in {Strip(t) : t \in s5} : TRUE

\* the edge dataset file both edge generators read at construction: missing,
\* one read_csv fails on, one read_csv parses into rows without the columns of
\* the dataset, or a dataset
EdgeFiles ==
    {[exists |-> FALSE, readable |-> FALSE, columns |-> FALSE, rows |-> {}],
     [exists |-> TRUE, readable |-> FALSE, columns |-> FALSE, rows |-> {}],
     [exists |-> TRUE, readable |-> TRUE, columns |-> FALSE, rows |-> {}],
     [exists |-> TRUE, readable |-> TRUE, columns |-> FALSE, rows |-> {1}]}
    \cup {[exists |-> TRUE, readable |-> TRUE, columns |-> TRUE, rows |-> S] :
              S \in EdgeStores}

\* load_edge_dataset
load_edge_dataset(file) == IF file.exists /\ file.readable THEN file.rows ELSE {}

\* EnhancedUltimateEdgeGenerator.__init__: load_edge_dataset, then
\* organize_content_pools, whose type_content[quality_col] raises when the frame
\* has rows and neither a quality_score nor an edge_quality column
edge_init(file) ==
    IF load_edge_dataset(file) # {} /\ ~file.columns
    THEN [result |-> Raised("KeyError"), content_pools |-> <<>>]
    ELSE [result |-> NoResult,
          content_pools |-> organize_content_pools(load_edge_dataset(file))]

SimpleCleaned == [c \in EdgeTexts |-> simple_clean_content(c)]

SimpleOutput == [c \in EdgeTexts |-> simple_clean_content_for_output(SimpleCleaned[c])]

SimplePriority == [c \in EdgeTexts |-> check_priority_content(SimpleCleaned[c])]

\* the rows _load_and_organize_content keeps in self.df
SimpleKept(rows) ==
    {i \in rows :
        /\ EdgeRows[i].content # NaN
        /\ Len(EdgeRows[i].content) > 5
        /\ Len(SimpleCleaned[EdgeRows[i].content]) >= 10
        /\ \A term \in unwanted_terms :
               ~Contains(Lower(SimpleCleaned[EdgeRows[i].content]), Lower(term))}

\* _load_and_organize_content: the attributes the instance has afterwards
load_and_organize_content(file) ==
    IF file.exists /\ file.readable /\ file.columns
    THEN LET df == SimpleKept(file.rows)
             short == {i \in df : Len(SimpleCleaned[EdgeRows[i].content]) <= ShortMax}
             medium == {i \in df : /\ Len(SimpleCleaned[EdgeRows[i].content]) > ShortMax
                                   /\ Len(SimpleCleaned[EdgeRows[i].content]) <= MediumMax}
         IN  [df |-> df, short_pool |-> short, medium_pool |-> medium,
              has_priority_pools |-> TRUE,
              priority_short_pool |-> {i \in short : SimplePriority[EdgeRows[i].content]},
              priority_medium_pool |-> {i \in medium : SimplePriority[EdgeRows[i].content]}]
    ELSE [df |-> {}, short_pool |-> {}, medium_pool |-> {},
          has_priority_pools |-> FALSE,
          priority_short_pool |-> {}, priority_medium_pool |-> {}]

PriorityChance == 70

\* random.random() of generate_tweet in hundredths: both sides of the threshold
PriorityDraws == {0, 69, 70, 99}

SimpleSample(pool) == {Content(SimpleOutput[EdgeRows[i].content]) : i \in pool}

\* generate_tweet: the results it can give when random.random() is r
generate_tweet(g, r) ==
    LET general == IF g.short_pool # {} THEN SimpleSample(g.short_pool)
                   ELSE IF g.medium_pool # {} THEN SimpleSample(g.medium_pool)
                   ELSE {Placeholder("Content pool exhausted")}
    IN  IF r < PriorityChance
        THEN IF ~g.has_priority_pools THEN {Raised("AttributeError")}
             ELSE IF g.priority_short_pool # {} THEN SimpleSample(g.priority_short_pool)
             ELSE IF g.priority_medium_pool # {} THEN SimpleSample(g.priority_medium_pool)
             ELSE general
        ELSE general

\* ---------------------------------------------------- TranscendentQuoteGenerator

html_tags ==
    {<<"<", "h", "t", "m", "l">>,
     <<"<", "d", "i", "v">>,
     <<"<", "s", "p", "a", "n">>,
     <<"<", "p", ">">>,
     <<"h", "t", "t", "p", ":", "/", "/">>,
     <<"h", "t", "t", "p", "s", ":", "/", "/">>}

non_content ==
    {<<"n", "o">>,
     <<"y", "e", "s">>,
     <<"o", "k">>,
     <<"l", "o", "l">>,
     <<"t", "h", "i", "s">>,
     <<"b", "u", "m", "p">>}

strict_blacklist ==
    {<<"y", "o", "u", "t", "u", "b", "e", ".", "c", "o", "m">>,
     <<"i", "n", "s", "t", "a", "g", "r", "a", "m", ".", "c", "o", "m">>,
     <<"t", "i", "k", "t", "o", "k", ".", "c", "o", "m">>,
     <<"s", "u", "b", "s", "c", "r", "i", "b", "e", " ", "t", "o">>,
     <<"o", "n", "l", "y", "f", "a", "n", "s", ".", "c", "o", "m">>,
     <<"p", "a", "t", "r", "e", "o", "n", ".", "c", "o", "m">>,
     <<"f", "o", "l", "l", "o", "w", " ", "m", "e">>}

transcendent_keywords ==
    {<<"g", "o", "d">>,
     <<"d", "i", "v", "i", "n", "e">>,
     <<"s", "a", "c", "r", "e", "d">>,
     <<"h", "o", "l", "y">>,
     <<"s", "p", "i", "r", "i", "t", "u", "a", "l">>,
     <<"s", "o", "u", "l">>,
     <<"c", "o", "n", "s", "c", "i", "o", "u", "s", "n", "e", "s", "s">>,
     <<"m", "e", "d", "i", "t", "a", "t", "i", "o", "n">>,
     <<"p", "r", "a", "y", "e", "r">>,
     <<"t", "r", "a", "n", "s", "c", "e", "n", "d", "e", "n", "t">>,
     <<"e", "n", "l", "i", "g", "h", "t", "e", "n", "m", "e", "n", "t">>,
     <<"w", "i", "s", "d", "o", "m">>,
     <<"t", "r", "u", "t", "h">>,
     <<"b", "e", "a", "u", "t", "y">>,
     <<"l", "o", "v", "e">>,
     <<"p", "e", "a", "c", "e">>,
     <<"e", "t", "e", "r", "n", "a", "l">>,
     <<"i", "n", "f", "i", "n", "i", "t", "e">>,
     <<"c", "o", "s", "m", "o", "s">>,
     <<"u", "n", "i", "v", "e", "r", "s", "e">>,
     <<"c", "r", "e", "a", "t", "i", "o", "n">>,
     <<"l", "i", "g", "h", "t">>,
     <<"d", "a", "r", "k", "n", "e", "s", "s">>,
     <<"s", "i", "l", "e", "n", "c", "e">>,
     <<"m", "y", "s", "t", "e", "r", "y">>,
     <<"f", "a", "i", "t", "h">>,
     <<"g", "r", "a", "c", "e">>,
     <<"s", "p", "i", "r", "i", "t">>,
     <<"e", "s", "s", "e", "n", "c", "e">>,
     <<"b", "e", "i", "n", "g">>,
     <<"e", "x", "i", "s", "t", "e", "n", "c", "e">>,
     <<"n", "a", "t", "u", "r", "e">>,
     <<"a", "r", "t">>,
     <<"p", "o", "e", "t", "r", "y">>,
     <<"m", "u", "s", "i", "c">>,
     <<"p", "h", "i", "l", "o", "s", "o", "p", "h", "y">>,
     <<"m", "e", "t", "a", "p", "h", "y", "s", "i", "c", "s">>,
     <<"m", "y", "s", "t", "i", "c", "a", "l">>,
     <<"e", "s", "o", "t", "e", "r", "i", "c">>,
     <<"o", "c", "c", "u", "l", "t">>,
     <<"h", "e", "r", "m", "e", "t", "i", "c">>,
     <<"g", "n", "o", "s", "i", "s">>,
     <<"a", "w", "a", "k", "e", "n", "i", "n", "g">>,
     <<"l", "i", "b", "e", "r", "a", "t", "i", "o", "n">>,
     <<"m", "e", "a", "n", "i", "n", "g">>,
     <<"p", "u", "r", "p", "o", "s", "e">>,
     <<"d", "e", "s", "t", "i", "n", "y">>,
     <<"j", "o", "u", "r", "n", "e", "y">>,
     <<"d", "r", "e", "a", "m">>,
     <<"h", "o", "p", "e">>,
     <<"h", "e", "a", "r", "t">>,
     <<"m", "i", "n", "d">>,
     <<"t", "h", "o", "u", "g", "h", "t">>,
     <<"f", "e", "e", "l", "i", "n", "g">>,
     <<"e", "m", "o", "t", "i", "o", "n">>,
     <<"m", "o", "m", "e", "n", "t">>,
     <<"t", "i", "m", "e">>,
     <<"s", "p", "a", "c", "e">>,
     <<"r", "e", "a", "l", "i", "t", "y">>,
     <<"w", "o", "r", "l", "d">>,
     <<"l", "i", "f", "e">>,
     <<"d", "e", "a", "t", "h">>,
     <<"b", "i", "r", "t", "h">>,
     <<"c", "h", "a", "n", "g", "e">>,
     <<"t", "r", "a", "n", "s", "f", "o", "r", "m">>,
     <<"e", "n", "e", "r", "g", "y">>,
     <<"v", "i", "b", "r", "a", "t", "i", "o", "n">>,
     <<"f", "r", "e", "q", "u", "e", "n", "c", "y">>,
     <<"r", "e", "s", "o", "n", "a", "n", "c", "e">>,
     <<"h", "a", "r", "m", "o", "n", "y">>,
     <<"b", "a", "l", "a", "n", "c", "e">>}

profound_keywords ==
    {<<"i", "m", "a", "g", "i", "n", "e">>,
     <<"e", "n", "v", "i", "s", "i", "o", "n">>,
     <<"p", "i", "c", "t", "u", "r", "e">>,
     <<"d", "r", "e", "a", "m">>,
     <<"c", "r", "e", "a", "t", "e">>,
     <<"i", "n", "s", "p", "i", "r", "a", "t", "i", "o", "n">>,
     <<"d", "i", "s", "c", "o", "v", "e", "r">>,
     <<"e", "x", "p", "l", "o", "r", "e">>,
     <<"j", "o", "u", "r", "n", "e", "y">>,
     <<"p", "a", "t", "h">>,
     <<"w", "a", "y">>,
     <<"b", "e", "c", "o", "m", "e">>,
     <<"t", "r", "a", "n", "s", "f", "o", "r", "m">>,
     <<"a", "w", "a", "k", "e", "n">>,
     <<"r", "e", "a", "l", "i", "z", "e">>,
     <<"u", "n", "d", "e", "r", "s", "t", "a", "n", "d">>,
     <<"l", "e", "a", "r", "n">>,
     <<"g", "r", "o", "w">>,
     <<"e", "v", "o", "l", "v", "e">>,
     <<"t", "h", "i", "n", "k">>,
     <<"f", "e", "e", "l">>,
     <<"r", "e", "m", "e", "m", "b", "e", "r">>,
     <<"f", "o", "r", "g", "e", "t">>,
     <<"b", "e", "l", "i", "e", "v", "e">>,
     <<"k", "n", "o", "w">>,
     <<"w", "o", "n", "d", "e", "r">>,
     <<"q", "u", "e", "s", "t", "i", "o", "n">>,
     <<"e", "x", "p", "e", "r", "i", "e", "n", "c", "e">>,
     <<"s", "e", "e">>,
     <<"h", "e", "a", "r">>,
     <<"t", "o", "u", "c", "h">>,
     <<"t", "a", "s", "t", "e">>,
     <<"s", "m", "e", "l", "l">>,
     <<"s", "e", "n", "s", "e">>}

\* len(content.split())
RECURSIVE WordCount(_)
WordCount(s) ==
    IF s = <<>> THEN 0
    ELSE IF IsSpace(s[1]) THEN WordCount(Tail(s))
    ELSE LET n == RunLen(s, {s[i] : i \in 1..Len(s)} \ {" ", "\n", "\t", "\r"})
         IN  1 + WordCount(Drop(s, n))

SubstantialWords == 8

MinQuoteLen == 8

is_suitable_transcendent_content(content) ==
    LET content_lower == Lower(content)
    IN  /\ ~(Len(content) < MinQuoteLen \/ Len(content) > MaxLen)
        /\ ~\E html_tag \in html_tags : Contains(content_lower, html_tag)
        /\ RemoveLongNumbers(content) = content
        /\ Strip(content_lower) \notin non_content
        /\ ~\E term \in strict_blacklist : Contains(content_lower, term)
        /\ \/ \E keyword \in transcendent_keywords : Contains(content_lower, keyword)
           \/ \E keyword \in profound_keywords : Contains(content_lower, keyword)
           \/ WordCount(content) >= SubstantialWords

TqTruth == <<"t", "r", "u", "t", "h", " ", "i", "s", " ", "s", "i", "l", "e", "n", "c", "e", ".">>

TqWay == <<">", "t", "h", "e", " ", "w", "a", "y", " ", "i", "s", " ", "l", "o", "n", "g">>

TqBump == <<"b", "u", "m", "p">>

TqDream == <<"D", "r", "e", "a", "m", " ", "o", "f", " ", "l", "i", "g", "h", "t">>

TqSoul == <<"s", "o", "u", "l", " ", "o", "v", "e", "r", " ", "a", "l", "l">>

\* rows of data/god_tier_esoteria.csv a store is drawn from
TqgRows ==
    << [content |-> TqTruth, category |-> "transcendental", quality_score |-> 9],
       [content |-> TqWay, category |-> "transcendental", quality_score |-> 6],
       [content |-> TqBump, category |-> "general_wisdom", quality_score |-> 7],
       [content |-> NaN, category |-> "general_wisdom", quality_score |-> 9],
       [content |-> TqDream, category |-> "general_wisdom", quality_score |-> 8],
       [content |-> TqSoul, category |-> "esoteric_knowledge", quality_score |-> 7] >>

TqgStores == {S \in SUBSET (1..Len(TqgRows)) : Cardinality(S) <= MaxRows}

TqgCategories == <<"transcendental", "esoteric_knowledge", "spiritual_insight",
                   "aesthetic_beauty", "philosophical_wisdom", "general_wisdom">>

TqgTiers == <<"elite", "high", "good">>

TqgInTier(tier, q) ==
    CASE tier = "elite" -> q >= 9
      [] tier = "high" -> q >= 7 /\ q < 9
      [] tier = "good" -> q = 6

\* _organize_content_pools: a pool is stored only when it has rows
tqg_organize_content_pools(frame) ==
    LET pool(c, t) == {i \in frame : /\ TqgRows[i].category = TqgCategories[c]
                                     /\ TqgInTier(TqgTiers[t], TqgRows[i].quality_score)}
        keys == {k \in (1..Len(TqgCategories)) \X (1..Len(TqgTiers)) :
                     frame # {} /\ pool(k[1], k[2]) # {}}
    IN  [k \in {<<TqgCategories[kk[1]], TqgTiers[kk[2]]>> : kk \in keys} |->
            {i \in frame : /\ TqgRows[i].category = k[1]
                           /\ TqgInTier(k[2], TqgRows[i].quality_score)}]

\* _get_content_hash: md5 of the lowercased content
tqg_get_content_hash(content) == <<"md5", Lower(content)>>

tqg_is_content_recent(recent, content) == tqg_get_content_hash(content) \in recent

TqgMaxRecent == 2

\* _track_content_usage: set.pop() removes arbitrary elements
tqg_track_content_usage(recent, content) ==
    LET added == recent \cup {tqg_get_content_hash(content)}
    IN  IF Cardinality(added) > TqgMaxRecent
        THEN {R \in SUBSET added : Cardinality(R) = TqgMaxRecent}
        ELSE {added}

\* size of recent_content above which a recent snippet is accepted anyway
TqgBypass == 1

TupleResult(content, type) == [kind |-> "tuple", text |-> content, name |-> type]

TqgTexts == {TqgRows[i].content : i \in 1..Len(TqgRows)} \ {NaN}

TqgSuitable == [c \in TqgTexts |-> is_suitable_transcendent_content(c)]

TqgCleaned == [c \in TqgTexts |-> Strip(ReplaceAll(c, <<">">>, <<>>))]

\* generate_enhanced_content: every way the call can end, with the recency set
\* it leaves; _is_balanced_length can reject every sample of the attempts
generate_enhanced_content(frame, pools, recent) ==
    LET preferred_pools == {k \in DOMAIN pools : k[2] \in {"elite", "high"}}
        fallback_pools == {k \in DOMAIN pools : k[2] = "good"}
        available_pools == IF preferred_pools # {} THEN preferred_pools ELSE fallback_pools
        samples == UNION {pools[k] : k \in available_pools}
        end(res, rec, row, was) ==
            [result |-> res, recent |-> rec, row |-> row, was_recent |-> was,
             available_pools |-> available_pools]
    IN  IF frame = {} THEN {end(TupleResult(<<>>, "no_data"), recent, 0, FALSE)}
        ELSE IF available_pools = {} THEN {end(TupleResult(<<>>, "no_pools"), recent, 0, FALSE)}
        ELSE {end(TupleResult(<<>>, "no_suitable_content"), recent, 0, FALSE) :
                  i \in {j \in {1} : \E k \in samples : TqgRows[k].content # NaN}}
             \cup {end(Raised("AttributeError"), recent, i, FALSE) :
                       i \in {j \in samples : TqgRows[j].content = NaN}}
             \cup UNION {
                    {end(TupleResult(TqgCleaned[TqgRows[i].content], "authentic"), rec, i,
                         tqg_is_content_recent(recent, TqgRows[i].content)) :
                         rec \in tqg_track_content_usage(recent, TqgRows[i].content)} :
                    i \in {j \in samples :
                             /\ TqgRows[j].content # NaN
                             /\ TqgSuitable[TqgRows[j].content]
                             /\ \/ ~tqg_is_content_recent(recent, TqgRows[j].content)
                                \/ Cardinality(recent) > TqgBypass}}

\* nested frames of a generate call the interpreter allows before it raises
\* RecursionError (sys.getrecursionlimit() is 1000)
RecursionLimit == 2

\* ------------------------------------------------------- UltraEnhancedGenerator

Signature == <<" ", "-", " ", "R", "e", "m", "i", "l", "i", "o">>

\* texts generate_enhanced_tweet can assemble from the dataset row, the
\* conspiracy templates and the penguin phrases before it checks recent_outputs;
\* each ends with '.' and the signature
UltraTexts ==
    {<<"W", "a", "k", "e", " ", "u", "p", ".">> \o Signature,
     <<"T", "h", "e", "y", " ", "l", "i", "e", ".">> \o Signature,
     <<"H", "o", "n", "k", "!", ".">> \o Signature}

\* the strings of the except branch of generate_enhanced_tweet
UltraFallbacks ==
    {"The deep state is collapsing - Remilio",
     "Pudgy Penguins are a CIA psyop - Remilio",
     "Wake up, the matrix is glitching - Remilio"}

UltraMaxRecent == 2

ultra_hash(text) == <<"md5", text>>

\* recent_outputs.add(text_hash) and the cut to max_recent
ultra_track(recent, text) ==
    LET added == recent \cup {ultra_hash(text)}
    IN  IF Cardinality(added) > UltraMaxRecent
        THEN {R \in SUBSET added : Cardinality(R) = UltraMaxRecent}
        ELSE {added}

\* re.sub(r'http[s]?://\S+', '', text)
RECURSIVE RemoveUrls(_)
RemoveUrls(s) ==
    LET scheme(i) ==
            IF StartsWith(Drop(s, i - 1), <<"h", "t", "t", "p", "s", ":", "/", "/">>) THEN 8
            ELSE IF StartsWith(Drop(s, i - 1), <<"h", "t", "t", "p", ":", "/", "/">>) THEN 7
            ELSE 0
        hits == {i \in 1..Len(s) :
                    scheme(i) # 0 /\ i + scheme(i) <= Len(s) /\ ~IsSpace(s[i + scheme(i)])}
    IN  IF hits = {} THEN s
        ELSE LET k == Min(hits)
                 rest == Drop(s, k + scheme(k) - 1)
                 blanks == {i \in 1..Len(rest) : IsSpace(rest[i])}
             IN  SubSeq(s, 1, k - 1)
                     \o (IF blanks = {} THEN <<>> ELSE RemoveUrls(Drop(rest, Min(blanks) - 1)))

\* UltraEnhancedGenerator.clean_content
clean_content(text) ==
    IF text = <<>> THEN <<>>
    ELSE LET s1 == {RemoveOpenTags(t) : t \in {RemoveClosedTags(text)}}
             s2 == {ReplaceAll(t, <<"&", "l", "t", ";">>, <<>>) :
                        t \in {ReplaceAll(u, <<"&", "g", "t", ";">>, <<>>) : u \in s1}}
             s3 == {ReplaceAll(t, <<"&", "q", "u", "o", "t", ";">>, <<"\"">>) :
                        t \in {ReplaceAll(u, <<"&", "a", "m", "p", ";">>, <<"&">>) : u \in s2}}
             s4 == {RemoveNumericEntities(t) : t \in {RemoveNamedEntities(u) : u \in s3}}
             s5 == {ReplaceAll(t, <<">">>, <<>>) : t \in s4}
             s6 == {RemoveNumbers(t) : t \in {RemoveLongNumbers(u) : u \in s5}}
             s7 == {RemoveTrailingDigits(t) : t \in {RemoveLeadingDigits(u) : u \in s6}}
             \* '>>[0-9]+' and '>>+' find no '>' any more
             s8 == {SquashRuns(t, "\n", 1, <<" ">>) : t \in s7}
             s9 == {SquashRuns(t, "\t", 1, <<" ">>) :
                        t \in {SquashRuns(u, "\r", 1, <<" ">>) : u \in s8}}
             s10 == {NormalizeSpace(t) : t \in {RemoveUrls(u) : u \in s9}}
         IN  CHOOSE r \in {Strip(t) : t \in s10} : TRUE

\* the rows of the political dataset file: content and quality_score
UltraRows ==
    << [content |-> <<"t", "h", "e", "y", " ", "g", "l", "o", "w", " ", "i", "n", " ", "t", "h", "e", " ", "d", "a", "r", "k">>,
        quality_score |-> 9],
       [content |-> <<"n", "o", "t", "h", "i", "n", "g", " ", "e", "v", "e", "r", " ", "h", "a", "p", "p", "e", "n", "s", ".">>,
        quality_score |-> 6],
       [content |-> <<">", ">", "1", "2", "3", " ", "l", "o", "l">>, quality_score |-> 7],
       [content |-> NaN, quality_score |-> 5],
       [content |-> <<"t", "h", "e", " ", "w", "e", "s", "t", " ", "h", "a", "s", " ", "f", "a", "l", "l", "e", "n", ".">>,
        quality_score |-> 3] >>

\* the datasets the file can hold, as sets of rows
UltraStores == {{}, {1}, {4}, {5}, {1, 2}, {1, 3}}

\* the dataset file of UltraEnhancedGenerator
UltraFiles ==
    {[exists |-> FALSE, readable |-> FALSE, columns |-> FALSE, rows |-> {}]}
    \cup {[exists |-> TRUE, readable |-> TRUE, columns |-> TRUE, rows |-> S] :
              S \in UltraStores}

\* primary_data.sample(frac=1).reset_index(drop=True): the rows in any order
\* under the labels 1..n
Shuffles(rows) ==
    {p \in [1..Cardinality(rows) -> rows] : \A i, j \in DOMAIN p : p[i] = p[j] => i = j}

UltraCleaned == [i \in {k \in 1..Len(UltraRows) : UltraRows[k].content # NaN} |->
                    clean_content(UltraRows[i].content)]

\* len(cleaned_content.strip()) < 20 and len(cleaned_content) > 300 of
\* get_fresh_political_content
UltraMinLen == 20

UltraMaxLen == 300

\* the pools load_datasets cuts from the shuffled primary_data: label -> row
ultra_pools(primary_data) ==
    LET pool(lo, hi) ==
            [i \in {k \in DOMAIN primary_data :
                        /\ UltraRows[primary_data[k]].quality_score >= lo
                        /\ UltraRows[primary_data[k]].quality_score < hi} |-> primary_data[i]]
    IN  [high_quality_pool |-> pool(8, 11), medium_quality_pool |-> pool(6, 8),
         all_quality_pool |-> pool(5, 11)]

\* UltraEnhancedGenerator.load_datasets: the states the generator can start in
load_datasets(file) ==
    IF file.exists /\ file.readable
    THEN {[primary_data |-> p, used_content_indices |-> {}, pools |-> ultra_pools(p)] :
              p \in Shuffles(file.rows)}
    ELSE {[primary_data |-> <<>>, used_content_indices |-> {},
           pools |-> ultra_pools(<<>>)]}

\* random.random() of get_fresh_political_content: one draw per branch
PoolDraws == {0, 40, 75}

\* the pool get_fresh_political_content draws from when random.random() is
\* rand_val
select_pool(store, rand_val) ==
    IF rand_val < 40 /\ DOMAIN store.pools.all_quality_pool # {}
    THEN store.pools.all_quality_pool
    ELSE IF rand_val < 75 /\ DOMAIN store.pools.medium_quality_pool # {}
    THEN store.pools.medium_quality_pool
    ELSE IF DOMAIN store.pools.high_quality_pool # {}
    THEN store.pools.high_quality_pool
    ELSE store.primary_data

\* UltraEnhancedGenerator.get_fresh_political_content from pass attempt of its
\* loop on: every way the call can end; row 0 is None, reset whether
\* used_content_indices.clear() ran
RECURSIVE get_fresh_political_content_from(_, _)
get_fresh_political_content_from(store, attempt) ==
    LET n == Len(store.primary_data)
        max_attempts == IF n < 30 THEN n ELSE 30
        reset == Cardinality(store.used_content_indices) >= n
        later(outs) == {[o EXCEPT !.reset = @ \/ reset] : o \in outs}
    IN  IF n = 0 \/ attempt >= max_attempts
        THEN {[row |-> 0, store |-> store, reset |-> FALSE]}
        ELSE UNION {
          UNION {
            LET available_indices == DOMAIN selected_pool \ cycled.used_content_indices
            IN  IF available_indices = {}
                THEN later(get_fresh_political_content_from(cycled, attempt + 1))
                ELSE UNION {
                  LET row == selected_pool[selected_idx]
                      marked == [cycled EXCEPT !.used_content_indices = @ \cup {selected_idx}]
                  IN  IF UltraRows[row].content = NaN
                         \/ Len(Strip(UltraCleaned[row])) < UltraMinLen
                         \/ Len(UltraCleaned[row]) > UltraMaxLen
                      THEN later(get_fresh_political_content_from(marked, attempt + 1))
                      ELSE {[row |-> row, store |-> marked, reset |-> reset]} :
                  selected_idx \in available_indices} :
            selected_pool \in {select_pool(cycled, rand_val) : rand_val \in PoolDraws}} :
          cycled \in IF reset
                     THEN {[store EXCEPT !.used_content_indices = {}, !.primary_data = p] :
                               p \in Shuffles({store.primary_data[i] : i \in 1..n})}
                     ELSE {store}}

get_fresh_political_content(store) == get_fresh_political_content_from(store, 0)

\* generate_enhanced_tweet in frame d: every way the call can end; an exception
\* in the body (no recent_outputs attribute without the dataset file, the
\* interpreter's recursion limit) ends in the except branch
RECURSIVE generate_enhanced_tweet(_, _, _, _)
generate_enhanced_tweet(loaded, store, recent, d) ==
    LET end(res, rec, n, st) ==
            [result |-> res, recent |-> rec, regens |-> n, store |-> st]
        fallbacks(st) == {end(Placeholder(f), recent, d, st) : f \in UltraFallbacks}
    IN  UNION {
          IF ~loaded THEN fallbacks(fresh.store)
          ELSE UNION {
                 IF ultra_hash(text) \in recent
                 THEN IF d + 1 > RecursionLimit THEN fallbacks(fresh.store)
                      ELSE generate_enhanced_tweet(loaded, fresh.store, recent, d + 1)
                 ELSE {end(Content(text), rec, d, fresh.store) :
                           rec \in ultra_track(recent, text)} :
                 text \in UltraTexts} :
          fresh \in get_fresh_political_content(store)}

\* ------------------------------- generators whose modules are not in the source

TxtQuote == <<"A", "l", "l", " ", "i", "s", " ", "o", "n", "e", ",", " ", "a", "n", "o", "n", ".">>

TxtCsv == <<"c", "e", "r", "t", "i", "f", "i", "e", "d", " ", "m", "e", "m", "e", " ", "h", "o", "u", "r", "s">>

\* SimpleTranscendentalGenerator.generate_quote: a string
generate_quote == {Content(TxtQuote)}

\* SimpleCsvGenerator.generate_content: a string
generate_content == {Content(TxtCsv)}

\* ----------------------------------------------------------- dispatch at the routes

\* random.random() in hundredths: both sides of every threshold of the routes
\* and of generate_tweet
RandVals == {0, 19, 20, 29, 30, 39, 40, 59, 60, 69, 70, 79, 80, 89, 90, 99}

Generators == {"enhanced_edge", "simple_edge", "ultra_enhanced", "transcendent",
               "simple_transcendental", "csv"}

Slot(gen, tag, na, na_tag) == [gen |-> gen, tag |-> tag, na |-> na, na_tag |-> na_tag]

\* generate_tweets with the first comparison written rand_val <= 0.2
generate_tweets_slot_inclusive(rand_val) ==
    IF rand_val <= 20
    THEN Slot("enhanced_edge", "enhanced_ultimate_edge",
              "Enhanced edge generator not available", "fallback")
    ELSE IF rand_val < 40
    THEN Slot("simple_edge", "simple_enhanced_edge",
              "Simple edge generator not available", "fallback")
    ELSE IF rand_val < 60
    THEN Slot("ultra_enhanced", "ultra_enhanced",
              "Ultra enhanced generator not available", "fallback")
    ELSE IF rand_val < 70
    THEN Slot("transcendent", "authentic_transcendent_quotes",
              "Transcendent generator not available", "fallback")
    ELSE IF rand_val < 80
    THEN Slot("simple_transcendental", "simple_transcendental",
              "Simple transcendental generator not available", "fallback")
    ELSE IF rand_val < 90
    THEN Slot("csv", "simple_csv", "CSV generator not available", "fallback")
    ELSE Slot("csv", "simple_csv_fallback", "All generators unavailable", "system_fallback")

\* the if/elif chain of generate_tweets: the generator of the branch, its
\* generator_type, and the tweet and generator_type of the branch's else
generate_tweets_slot(rand_val) ==
    IF rand_val < 20
    THEN Slot("enhanced_edge", "enhanced_ultimate_edge",
              "Enhanced edge generator not available", "fallback")
    ELSE IF rand_val < 40
    THEN Slot("simple_edge", "simple_enhanced_edge",
              "Simple edge generator not available", "fallback")
    ELSE IF rand_val < 60
    THEN Slot("ultra_enhanced", "ultra_enhanced",
              "Ultra enhanced generator not available", "fallback")
    ELSE IF rand_val < 70
    THEN Slot("transcendent", "authentic_transcendent_quotes",
              "Transcendent generator not available", "fallback")
    ELSE IF rand_val < 80
    THEN Slot("simple_transcendental", "simple_transcendental",
              "Simple transcendental generator not available", "fallback")
    ELSE IF rand_val < 90
    THEN Slot("csv", "simple_csv", "CSV generator not available", "fallback")
    ELSE Slot("csv", "simple_csv_fallback", "All generators unavailable", "system_fallback")

\* the if/elif chain of generate_auto_text
generate_auto_text_slot(rand_val) ==
    IF rand_val < 20
    THEN Slot("enhanced_edge", "enhanced_ultimate_edge",
              "Enhanced edge generator not available", "fallback")
    ELSE IF rand_val < 40
    THEN Slot("simple_edge", "simple_enhanced_edge",
              "Simple edge generator not available", "fallback")
    ELSE IF rand_val < 60
    THEN Slot("ultra_enhanced", "ultra_enhanced",
              "Ultra enhanced generator not available", "fallback")
    ELSE IF rand_val < 70
    THEN Slot("transcendent", "transcendent_quote",
              "Transcendent generator not available", "fallback")
    ELSE IF rand_val < 80
    THEN Slot("simple_transcendental", "simple_transcendental",
              "Simple transcendental generator not available", "fallback")
    ELSE Slot("csv", "simple_csv", "CSV generator not available", "fallback")

\* the if/elif chain of generate_tweet_batch, whose conditions test the
\* generator objects as well
generate_tweet_batch_slot(rand_val, avail) ==
    IF rand_val < 30 /\ "simple_edge" \in avail
    THEN Slot("simple_edge", "simple_enhanced_edge", "", "")
    ELSE IF rand_val < 60 /\ "enhanced_edge" \in avail
    THEN Slot("enhanced_edge", "enhanced_ultimate_edge", "", "")
    ELSE IF rand_val < 80 /\ "transcendent" \in avail
    THEN Slot("transcendent", "transcendent_quote", "", "")
    ELSE IF rand_val < 90 /\ "simple_transcendental" \in avail
    THEN Slot("simple_transcendental", "simple_transcendental", "", "")
    ELSE Slot("ultra_enhanced", "ultra_enhanced",
              "The algorithms have achieved consciousness...", "fallback")

\* a value None handed back where a string is expected
NoneValue == [kind |-> "None", text |-> <<>>, name |-> ""]

Falsy_never(tweet) == FALSE

\* not tweet
Falsy(tweet) == tweet.kind = "None" \/ (tweet.kind \in {"content", "tuple"} /\ tweet.text = <<>>)

\* tweet.replace('- Remilio', '').strip()
StripSignature(s) == Strip(ReplaceAll(s, <<"-", " ", "R", "e", "m", "i", "l", "i", "o">>, <<>>))

\* re.sub(r'^>\s*', '', text)
RemoveLeadingArrow(s) == IF s # <<>> /\ s[1] = ">" THEN LStrip(Tail(s)) ELSE s

RECURSIVE DropTrailingArrows(_)
DropTrailingArrows(s) ==
    IF s # <<>> /\ s[Len(s)] = ">" THEN DropTrailingArrows(SubSeq(s, 1, Len(s) - 1)) ELSE s

\* re.sub(r'\s*>+\s*$', '', text)
RemoveTrailingArrows(s) ==
    LET a == RStrip(s)
    IN  IF a # <<>> /\ a[Len(a)] = ">" THEN RStrip(DropTrailingArrows(a)) ELSE s

\* the cut of generate_auto_text with the ',' kept
auto_text_truncate_keeps_comma(clean_text) ==
    IF Len(clean_text) > MaxLen
    THEN LET head == SubSeq(clean_text, 1, TruncLen)
             dot == RFind(head, ".", Len(head))
             comma == RFind(head, ",", Len(head))
         IN  IF dot # 0 THEN SubSeq(clean_text, 1, dot)
             ELSE IF comma # 0 THEN SubSeq(clean_text, 1, comma)
             ELSE head \o <<".", ".", ".">>
    ELSE clean_text

\* the cut to 280 characters of generate_auto_text
auto_text_truncate(clean_text) ==
    IF Len(clean_text) > MaxLen
    THEN LET head == SubSeq(clean_text, 1, TruncLen)
             dot == RFind(head, ".", Len(head))
             comma == RFind(head, ",", Len(head))
         IN  IF dot # 0 THEN SubSeq(clean_text, 1, dot)
             ELSE IF comma # 0 THEN SubSeq(clean_text, 1, comma - 1)
             ELSE head \o <<".", ".", ".">>
    ELSE clean_text

\* the text generate_auto_text answers with; the fixed strings are kept by name
auto_clean_text(tweet) ==
    IF tweet.kind # "content" THEN tweet
    ELSE LET s1 == {RemoveLeadingArrow(t) : t \in {StripSignature(tweet.text)}}
             s2 == {RemoveTrailingArrows(t) : t \in s1}
         IN  Content(CHOOSE r \in {auto_text_truncate(t) : t \in s2} : TRUE)

\* the text of a generate_tweet_batch entry
batch_clean_tweet(tweet) ==
    IF tweet.kind # "content" THEN tweet
    ELSE Content(CHOOSE r \in {StripSignature(tweet.text)} : TRUE)

\* ------------------------------------------------------------------ state

VARIABLES
    server,           \* the process: "app", "private_api", or "none" for a script
    disk,             \* the dataset files the process found
    edge_init_result, \* how EnhancedUltimateEdgeGenerator() ended
    available,        \* the generators whose module-level object is not None
    edge_df,          \* EnhancedUltimateEdgeGenerator.df
    content_pools,    \* EnhancedUltimateEdgeGenerator.content_pools
    recent_content,   \* EnhancedUltimateEdgeGenerator.recent_content
    edge,             \* the generate_enhanced_edge_tweet call in progress
    simple,           \* the pools of SimpleEnhancedEdgeGenerator
    tqg_df,           \* TranscendentQuoteGenerator.df
    tqg_pools,        \* TranscendentQuoteGenerator.content_pools
    tqg_recent,       \* TranscendentQuoteGenerator.recent_content
    ultra_loaded,     \* UltraEnhancedGenerator found its dataset file
    ultra,            \* UltraEnhancedGenerator: primary_data, used_content_indices, pools
    recent_outputs,   \* UltraEnhancedGenerator.recent_outputs
    ret,              \* what the last call a script made of another generator handed back
    req,              \* the request a route is serving
    last,             \* the last dispatch iteration a route finished
    call,             \* the last call a script made of a text function
    threads,          \* the generate_enhanced_edge_tweet calls of the request threads
    cycle,            \* the rows get_fresh_political_content returned since the last reset
    RATE_LIMIT_STORAGE, \* app.py: per client IP and endpoint type, the stored timestamps
    clock,            \* datetime.now()
    limiter,          \* the is_rate_limited calls of the request threads
    admissions,       \* the requests is_rate_limited admitted and rejected so far
    active_downloads, \* VideoDownloader.active_downloads: download_id -> entry
    workers,          \* the download_video calls and their download_worker threads
    served            \* what the last /api/video/download_file request answered

vars == <<server, disk, edge_init_result, available, edge_df, content_pools, recent_content, edge, simple,
          tqg_df, tqg_pools, tqg_recent, ultra_loaded, ultra, recent_outputs, ret, req,
          last, call, threads, cycle, RATE_LIMIT_STORAGE, clock, limiter, admissions,
          active_downloads, workers, served>>

\* what construction fixes
loaded == <<server, disk, edge_init_result, available, edge_df, content_pools, simple, tqg_df, tqg_pools,
            ultra_loaded>>

\* what the calls of the generators and the dispatch routes leave alone
services ==
    <<RATE_LIMIT_STORAGE, clock, limiter, admissions, active_downloads, workers, served>>

aside == <<cycle, services>>

\* max_attempts of get_fresh_edge_content (20 in the source)
MaxAttempts == 2

\* the style arguments callers pass: None, or a category
StyleArgs == {"None", "general_edge", "sexual_edge"}

\* the frame of a generate_enhanced_edge_tweet call: sel is the style
\* get_fresh_edge_content works with, tier and attempt its loop position
\* (tier 4 is the fallback), sampled whether it rejected a sample as recent,
\* evicted whether track_content_usage cut the set
EdgeIdle ==
    [pc |-> "idle", caller |-> "none", style |-> "None", sel |-> "None", tier |-> 1,
     attempt |-> 0, sampled |-> FALSE, depth |-> 0, row |-> 0, evicted |-> FALSE,
     result |-> NoResult]

\* the request threads of a server started with threaded=True
Threads == {1, 2}

\* a thread's generate_enhanced_edge_tweet call: the fields of the call in
\* progress, and fallback whether the row came from df.sample, seen the recency
\* set is_content_recent read when it accepted the row, snap the set
\* list(self.recent_content) read, local the slice of it, lost the entries the
\* assignment of the slice removed that the list never held, calls the calls
\* the thread has finished
ThreadIdle ==
    [pc |-> "idle", sel |-> "None", tier |-> 1, attempt |-> 0, depth |-> 0, row |-> 0,
     fallback |-> FALSE, seen |-> {}, snap |-> {}, local |-> {}, lost |-> {},
     calls |-> 0, result |-> NoResult]

NoRet ==
    [gen |-> "none", result |-> NoResult, row |-> 0, was_recent |-> FALSE,
     regens |-> 0, rand |-> 0, pools |-> {}]

Ret(gen, result, row, was, regens, rand, pools) ==
    [gen |-> gen, result |-> result, row |-> row, was_recent |-> was,
     regens |-> regens, rand |-> rand, pools |-> pools]

NoRequest ==
    [pc |-> "responded", endpoint |-> "none", count |-> 0, i |-> 0, tweets |-> 0,
     rand |-> 0, status |-> 200]

NoLast ==
    [endpoint |-> "none", rand_val |-> 0, generator |-> "none",
     generator_type |-> "none", tweet |-> NoResult, text |-> NoResult,
     invoked |-> {}, outcome |-> "none"]

NoCall == [fn |-> "none", arg |-> <<>>, out |-> <<>>]

\* the client addresses get_client_ip yields and the endpoint types of the
\* rate_limit decorators
ClientIPs == {"10.0.0.1", "10.0.0.2"}

EndpointTypes == {"generation"}

LimitKeys == ClientIPs \X EndpointTypes

\* the limit of MAX_REQUESTS_PER_HOUR (300 for generation)
MaxAllowed == 1

MAX_REQUESTS_PER_HOUR == [generation |-> MaxAllowed]

\* timedelta(hours=1) in ticks of the clock
Hour == 2

\* an is_rate_limited call of a thread: key the address and endpoint type, now
\* and hour_ago its locals, kept the list the comprehension built, n the
\* requests the thread has made
LimiterIdle ==
    [pc |-> "idle", key |-> <<"", "">>, now |-> 0, hour_ago |-> 0, kept |-> <<>>, n |-> 0]

\* admitted and rejected: the requests (thread, number, key, time) with the
\* answer is_rate_limited gave; overlapped whether two calls ever ran at once
NoAdmissions == [admitted |-> {}, rejected |-> {}, overlapped |-> FALSE]

\* download_video calls followed
MaxDownloads == 2

\* a download_video call: pc where its download_worker thread stands ("none"
\* before the call, "done" after the worker ended), id the download_id of the
\* call
NoWorker == [pc |-> "none", id |-> 0]

\* the answer of download_file: the download_id asked for, the status its
\* entry had when the route read it, and what the route returned
NoServed == [id |-> 0, status |-> "", answer |-> "none"]

\* returned the rows get_fresh_political_content returned since
\* used_content_indices was last cleared (or since load), repeat whether the
\* last row it returned was one of them already
NoCycle == [returned |-> {}, repeat |-> FALSE]

\* entry of generate_enhanced_edge_tweet(style) at recursion depth d, up to the
\* start of get_fresh_edge_content's loop over the tiers
EnterEdge(caller, style, d) ==
    IF edge_df = {}
    THEN edge' = [EdgeIdle EXCEPT !.pc = "done", !.caller = caller, !.style = style,
                                  !.depth = d,
                                  !.result = Placeholder("No authentic edge content available")]
    ELSE \E s \in (IF style = "None" THEN select_generation_style(content_pools)
                   ELSE {style}) :
            edge' = [EdgeIdle EXCEPT !.pc = "fresh", !.caller = caller, !.style = style,
                                     !.sel = s, !.depth = d]

\* a script calls generate_enhanced_edge_tweet(style)
CallEdge(style) ==
    /\ edge_init_result.kind # "raised"
    /\ edge.pc = "idle"
    /\ req.pc = "responded"
    /\ EnterEdge("direct", style, 0)
    /\ UNCHANGED <<loaded, aside, call, threads, ultra, recent_content, tqg_recent, recent_outputs, ret, req, last>>

\* the tier get_fresh_edge_content moves to after tier k
NextTier(e) == [e EXCEPT !.tier = e.tier + 1, !.attempt = 0]

\* get_fresh_edge_content: one pass of the attempt loop of the current tier, the
\* skip of a tier whose pool is missing or empty, or the fallback after the
\* last tier
EdgeFresh ==
    /\ edge.pc = "fresh"
    /\ UNCHANGED <<loaded, aside, call, threads, ultra, recent_content, tqg_recent, recent_outputs, ret, req, last>>
    /\ IF edge.tier > Len(QualityTiers)
       THEN \* return self.df.sample(n=1).iloc[0]
            \E i \in edge_df : edge' = [edge EXCEPT !.pc = "clean", !.row = i]
       ELSE LET pool_key == <<edge.sel, QualityTiers[edge.tier]>>
            IN  IF pool_key \notin DOMAIN content_pools \/ content_pools[pool_key] = {}
                THEN edge' = NextTier(edge)
                ELSE \E i \in content_pools[pool_key] :
                        LET content == EdgeRows[i].content
                        IN  IF content = NaN
                            THEN \* float has no encode()
                                 edge' = [edge EXCEPT !.pc = "done",
                                                      !.result = Raised("AttributeError")]
                            ELSE IF ~is_content_recent(recent_content, content)
                            THEN edge' = [edge EXCEPT !.pc = "clean", !.row = i]
                            ELSE IF edge.attempt + 1 >= MaxAttempts
                            THEN edge' = NextTier([edge EXCEPT !.sampled = TRUE])
                            ELSE edge' = [edge EXCEPT !.attempt = edge.attempt + 1,
                                                      !.sampled = TRUE]

\* generate_enhanced_edge_tweet from the row to the length check; an empty or
\* too short text calls generate_enhanced_edge_tweet(style) again
EdgeClean ==
    /\ edge.pc = "clean"
    /\ UNCHANGED <<loaded, aside, call, threads, ultra, recent_content, tqg_recent, recent_outputs, ret, req, last>>
    /\ LET raw_content == EdgeRows[edge.row].content
       IN  IF raw_content = NaN
           THEN \* html.unescape(float)
                edge' = [edge EXCEPT !.pc = "done", !.result = Raised("TypeError")]
           ELSE LET cleaned_content == CleanedEdge[raw_content]
                    final_content == FinalEdge[raw_content]
                IN  IF cleaned_content = <<>> \/ final_content = <<>>
                    THEN IF edge.depth + 1 > RecursionLimit
                         THEN edge' = [edge EXCEPT !.pc = "done",
                                                   !.result = Raised("RecursionError")]
                         ELSE EnterEdge(edge.caller, edge.style, edge.depth + 1)
                    ELSE edge' = [edge EXCEPT !.pc = "track",
                                              !.result = Content(final_content)]

\* generate_enhanced_edge_tweet: track_content_usage(raw_content), then return
EdgeTrack ==
    /\ edge.pc = "track"
    /\ recent_content' \in track_content_usage(recent_content, EdgeRows[edge.row].content)
    /\ edge' = [edge EXCEPT !.pc = "done",
                            !.evicted = Cardinality(recent_content \cup
                                {get_content_hash(EdgeRows[edge.row].content)}) > EdgeMaxRecent]
    /\ UNCHANGED <<loaded, aside, call, threads, ultra, tqg_recent, recent_outputs, ret, req, last>>

\* the script takes the result
ReturnEdge ==
    /\ edge.pc = "done"
    /\ edge.caller = "direct"
    /\ edge' = EdgeIdle
    /\ UNCHANGED <<loaded, aside, call, threads, ultra, recent_content, tqg_recent, recent_outputs, ret, req, last>>

\* a script calls SimpleEnhancedEdgeGenerator.generate_tweet()
CallSimple ==
    /\ edge.pc = "idle"
    /\ req.pc = "responded"
    /\ \E r \in PriorityDraws : \E res \in generate_tweet(simple, r) :
           ret' = Ret("simple_edge", res, 0, FALSE, 0, r, {})
    /\ UNCHANGED <<loaded, aside, call, threads, ultra, recent_content, edge, tqg_recent, recent_outputs, req, last>>

\* a script calls TranscendentQuoteGenerator.generate_enhanced_content()
CallTranscendent ==
    /\ edge.pc = "idle"
    /\ req.pc = "responded"
    /\ \E o \in generate_enhanced_content(tqg_df, tqg_pools, tqg_recent) :
           /\ tqg_recent' = o.recent
           /\ ret' = Ret("transcendent", o.result, o.row, o.was_recent, 0, 0,
                         o.available_pools)
    /\ UNCHANGED <<loaded, aside, call, threads, ultra, recent_content, edge, recent_outputs, req, last>>

\* a script calls UltraEnhancedGenerator.generate_enhanced_tweet()
CallUltra ==
    /\ edge.pc = "idle"
    /\ req.pc = "responded"
    /\ \E o \in generate_enhanced_tweet(ultra_loaded, ultra, recent_outputs, 0) :
           /\ recent_outputs' = o.recent
           /\ ultra' = o.store
           /\ ret' = Ret("ultra_enhanced", o.result, 0, FALSE, o.regens, 0, {})
    /\ UNCHANGED <<loaded, aside, call, threads, recent_content, edge, tqg_recent, req, last>>

\* ----------------------------------------------------------------- the routes

\* count of a /generate or /api/generate-tweet-batch request
MaxCount == 1

Endpoints(srv) ==
    CASE srv = "app" -> {"/generate", "/api/generate-auto-text"}
      [] srv = "private_api" -> {"/api/generate-tweet-batch"}
      [] OTHER -> {}

route_slot(endpoint, rand_val, avail) ==
    CASE endpoint = "/generate" -> generate_tweets_slot(rand_val)
      [] endpoint = "/api/generate-auto-text" -> generate_auto_text_slot(rand_val)
      [] OTHER -> generate_tweet_batch_slot(rand_val, avail)

\* a request arrives
Request(endpoint, count) ==
    /\ req.pc = "responded"
    /\ edge.pc = "idle"
    /\ endpoint \in Endpoints(server)
    /\ endpoint = "/api/generate-auto-text" => count = 1
    /\ req' = [NoRequest EXCEPT !.pc = IF count = 0 THEN "responded" ELSE "loop",
                                !.endpoint = endpoint, !.count = count]
    /\ last' = NoLast
    /\ UNCHANGED <<loaded, aside, call, threads, ultra, recent_content, edge, tqg_recent, recent_outputs, ret>>

\* the rest of a dispatch iteration once the branch has set tweet and
\* generator_type, or has raised: the length check and append of
\* generate_tweets, the cleaning and response of generate_auto_text, the append
\* of generate_tweet_batch, and the except clause of each
Finish(rand_val, slot, tweet, generator_type, invoked) ==
    LET e == req.endpoint
        raised == tweet.kind = "raised"
        outcome ==
            CASE e = "/generate" ->
                     IF raised THEN "caught"
                     ELSE IF Falsy(tweet) THEN "skipped"
                     ELSE IF tweet.kind = "content" /\ Len(tweet.text) < MinLen THEN "skipped"
                     ELSE "appended"
              [] e = "/api/generate-auto-text" ->
                     \* None has no replace()
                     IF raised \/ tweet.kind = "None" THEN "error" ELSE "ok"
              [] OTHER -> IF raised THEN "error_fallback" ELSE "appended"
        text ==
            CASE e = "/generate" -> IF outcome = "appended" THEN tweet ELSE NoResult
              [] e = "/api/generate-auto-text" ->
                     IF outcome = "ok" THEN auto_clean_text(tweet)
                     ELSE Placeholder("Content generation temporarily unavailable")
              [] OTHER -> IF raised THEN Placeholder("Reality.exe has stopped responding...")
                          ELSE batch_clean_tweet(tweet)
        type ==
            IF outcome = "error_fallback" THEN "error_fallback"
            ELSE IF raised \/ outcome = "error" THEN "none"
            ELSE generator_type
    IN  /\ last' = [endpoint |-> e, rand_val |-> rand_val, generator |-> slot.gen,
                    generator_type |-> type, tweet |-> tweet, text |-> text,
                    invoked |-> invoked, outcome |-> outcome]
        /\ req' = [req EXCEPT !.i = req.i + 1,
                              !.tweets = IF outcome \in {"appended", "error_fallback"}
                                         THEN req.tweets + 1 ELSE req.tweets,
                              !.pc = IF req.i + 1 >= req.count THEN "responded" ELSE "loop",
                              !.rand = 0,
                              !.status = IF outcome = "error" THEN 500 ELSE 200]

\* the branch of a generator object that is None
RouteUnavailable ==
    /\ req.pc = "loop"
    /\ \E r \in RandVals :
         LET slot == route_slot(req.endpoint, r, available)
         IN  /\ slot.gen \notin available
             /\ Finish(r, slot, Placeholder(slot.na), slot.na_tag, {})
    /\ UNCHANGED <<loaded, aside, call, threads, ultra, recent_content, edge, tqg_recent, recent_outputs, ret>>

\* the branch that calls generate_enhanced_edge_tweet()
RouteEdge ==
    /\ req.pc = "loop"
    /\ \E r \in RandVals :
         LET slot == route_slot(req.endpoint, r, available)
         IN  /\ slot.gen = "enhanced_edge"
             /\ slot.gen \in available
             /\ req' = [req EXCEPT !.pc = "edge", !.rand = r]
    /\ EnterEdge("route", "None", 0)
    /\ UNCHANGED <<loaded, aside, call, threads, ultra, recent_content, tqg_recent, recent_outputs, ret, last>>

\* generate_enhanced_edge_tweet() returns to the route, or raises into it
RouteEdgeReturn ==
    /\ req.pc = "edge"
    /\ edge.pc = "done"
    /\ edge.caller = "route"
    /\ LET slot == route_slot(req.endpoint, req.rand, available)
       IN  Finish(req.rand, slot, edge.result, slot.tag, {"enhanced_edge"})
    /\ edge' = EdgeIdle
    /\ UNCHANGED <<loaded, aside, call, threads, ultra, recent_content, tqg_recent, recent_outputs, ret>>

\* the branch that calls simple_edge_generator.generate_tweet()
RouteSimple ==
    /\ req.pc = "loop"
    /\ \E r \in RandVals :
         LET slot == route_slot(req.endpoint, r, available)
         IN  /\ slot.gen = "simple_edge"
             /\ slot.gen \in available
             /\ \E r2 \in PriorityDraws : \E res \in generate_tweet(simple, r2) :
                    Finish(r, slot, res, slot.tag, {"simple_edge"})
    /\ UNCHANGED <<loaded, aside, call, threads, ultra, recent_content, edge, tqg_recent, recent_outputs, ret>>

\* the branch that calls ultra_enhanced_generator.generate_enhanced_tweet()
RouteUltra ==
    /\ req.pc = "loop"
    /\ \E r \in RandVals :
         LET slot == route_slot(req.endpoint, r, available)
         IN  /\ slot.gen = "ultra_enhanced"
             /\ slot.gen \in available
             /\ \E o \in generate_enhanced_tweet(ultra_loaded, ultra, recent_outputs, 0) :
                    /\ recent_outputs' = o.recent
                    /\ ultra' = o.store
                    /\ Finish(r, slot, o.result, slot.tag, {"ultra_enhanced"})
    /\ UNCHANGED <<loaded, aside, call, threads, recent_content, edge, tqg_recent, ret>>

\* the calls of generate_enhanced_content of the transcendent branch: the tweet
\* of the branch, with the last call's outcome
transcendent_branch(endpoint) ==
    LET calls(recent) == generate_enhanced_content(tqg_df, tqg_pools, recent)
        end(tweet, o) == [tweet |-> tweet, o |-> o]
        second(first) ==
            {end(IF o.result.kind = "raised" THEN o.result
                 ELSE IF o.result.name = "authentic" THEN Content(o.result.text)
                 ELSE NoneValue, o) : o \in calls(first.recent)}
    IN  IF endpoint = "/api/generate-tweet-batch"
        THEN \* str() of the tuple, kept by its first item
             {end(IF o.result.kind = "raised" THEN o.result
                  ELSE [kind |-> "content", text |-> o.result.text, name |-> "str(tuple)"],
                  o) : o \in calls(tqg_recent)}
        ELSE UNION {
               IF o.result.kind = "raised" THEN {end(o.result, o)}
               ELSE IF o.result.name = "authentic" /\ o.result.text # <<>>
               THEN {end(Content(IF endpoint = "/generate"
                                 THEN o.result.text \o Signature
                                 ELSE o.result.text), o)}
               ELSE second(o) :
               o \in calls(tqg_recent)}

\* the branch that calls transcendent_generator.generate_enhanced_content()
RouteTranscendent ==
    /\ req.pc = "loop"
    /\ \E r \in RandVals :
         LET slot == route_slot(req.endpoint, r, available)
         IN  /\ slot.gen = "transcendent"
             /\ slot.gen \in available
             /\ \E b \in transcendent_branch(req.endpoint) :
                    /\ tqg_recent' = b.o.recent
                    /\ Finish(r, slot, b.tweet, slot.tag, {"transcendent"})
    /\ UNCHANGED <<loaded, aside, call, threads, ultra, recent_content, edge, recent_outputs, ret>>

\* the branch that calls simple_transcendental_generator.generate_quote()
RouteSimpleTranscendental ==
    /\ req.pc = "loop"
    /\ \E r \in RandVals :
         LET slot == route_slot(req.endpoint, r, available)
         IN  /\ slot.gen = "simple_transcendental"
             /\ slot.gen \in available
             /\ \E res \in generate_quote :
                    Finish(r, slot, res, slot.tag, {"simple_transcendental"})
    /\ UNCHANGED <<loaded, aside, call, threads, ultra, recent_content, edge, tqg_recent, recent_outputs, ret>>

\* the branches that call csv_generator.generate_content()
RouteCsv ==
    /\ req.pc = "loop"
    /\ \E r \in RandVals :
         LET slot == route_slot(req.endpoint, r, available)
         IN  /\ slot.gen = "csv"
             /\ slot.gen \in available
             /\ \E res \in generate_content :
                    Finish(r, slot, res, slot.tag, {"csv"})
    /\ UNCHANGED <<loaded, aside, call, threads, ultra, recent_content, edge, tqg_recent, recent_outputs, ret>>

\* -------------------------------------------------------------- specifications

MissingFile == [exists |-> FALSE, readable |-> FALSE, columns |-> FALSE, rows |-> {}]

Deployment(edge_file, tqg_store, ultra_file) ==
    [edge_file |-> edge_file, tqg_store |-> tqg_store, ultra_file |-> ultra_file]

\* the dataset files a script finds: the generators share no state, and one
\* dataset at a time is present
Deployments ==
    {Deployment(f, {}, MissingFile) : f \in EdgeFiles}
    \cup {Deployment(MissingFile, S, MissingFile) : S \in TqgStores}
    \cup {Deployment(MissingFile, {}, f) : f \in UltraFiles}

\* the dataset files a server finds
RouteDeployments ==
    {Deployment(MissingFile, {}, MissingFile),
     Deployment([exists |-> TRUE, readable |-> TRUE, columns |-> TRUE, rows |-> {1}], {}, MissingFile),
     Deployment([exists |-> TRUE, readable |-> TRUE, columns |-> TRUE, rows |-> {4}], {}, MissingFile),
     Deployment(MissingFile, {1}, MissingFile),
     Deployment(MissingFile, {}, [exists |-> TRUE, readable |-> TRUE, columns |-> TRUE, rows |-> {1}])}

\* the generators after their constructors
Constructed(d) ==
    /\ disk = d
    /\ edge_init_result = edge_init(d.edge_file).result
    /\ edge_df = load_edge_dataset(d.edge_file)
    /\ content_pools = edge_init(d.edge_file).content_pools
    /\ recent_content = {}
    /\ edge = EdgeIdle
    /\ simple = load_and_organize_content(d.edge_file)
    /\ tqg_df = d.tqg_store
    /\ tqg_pools = tqg_organize_content_pools(d.tqg_store)
    /\ tqg_recent = {}
    /\ ultra_loaded = (d.ultra_file.exists /\ d.ultra_file.readable)
    /\ ultra \in load_datasets(d.ultra_file)
    /\ recent_outputs = {}
    /\ ret = NoRet
    /\ req = NoRequest
    /\ last = NoLast
    /\ call = NoCall
    /\ threads = [t \in Threads |-> ThreadIdle]
    /\ cycle = NoCycle
    /\ RATE_LIMIT_STORAGE = [k \in LimitKeys |-> <<>>]
    /\ clock = 0
    /\ limiter = [t \in Threads |-> LimiterIdle]
    /\ admissions = NoAdmissions
    /\ active_downloads = <<>>
    /\ workers = [n \in 1..MaxDownloads |-> NoWorker]
    /\ served = NoServed

\* a script that has constructed the generators
Init ==
    /\ server = "none"
    /\ available = Generators
    /\ \E d \in Deployments : Constructed(d)

Next ==
    \/ \E style \in StyleArgs : CallEdge(style)
    \/ EdgeFresh
    \/ EdgeClean
    \/ EdgeTrack
    \/ ReturnEdge
    \/ CallSimple
    \/ CallTranscendent
    \/ CallUltra

Spec == Init /\ [][Next]_vars

\* a server after its module-level initialisation
InitRoutes ==
    /\ server \in {"app", "private_api"}
    /\ available \in SUBSET Generators
    /\ \E d \in RouteDeployments : Constructed(d)

NextRoutes ==
    \/ \E endpoint \in Endpoints(server), count \in 0..MaxCount : Request(endpoint, count)
    \/ RouteUnavailable
    \/ RouteEdge
    \/ EdgeFresh
    \/ EdgeClean
    \/ EdgeTrack
    \/ RouteEdgeReturn
    \/ RouteSimple
    \/ RouteUltra
    \/ RouteTranscendent
    \/ RouteSimpleTranscendental
    \/ RouteCsv

SpecRoutes == InitRoutes /\ [][NextRoutes]_vars

\* count of a /generate request whose loop is followed over several iterations
GenerateCount == 2

\* the app server, with the generator objects that are None chosen at start
InitGenerate ==
    /\ server = "app"
    /\ available \in SUBSET Generators
    /\ \E d \in RouteDeployments : Constructed(d)

NextGenerate ==
    \/ \E count \in 0..GenerateCount : Request("/generate", count)
    \/ RouteUnavailable
    \/ RouteEdge
    \/ EdgeFresh
    \/ EdgeClean
    \/ EdgeTrack
    \/ RouteEdgeReturn
    \/ RouteSimple
    \/ RouteUltra
    \/ RouteTranscendent
    \/ RouteSimpleTranscendental
    \/ RouteCsv

SpecGenerate == InitGenerate /\ [][NextGenerate]_vars

\* --------------------------------------------------------- the request threads

\* calls per thread
MaxCalls == 2

\* what the threads' steps leave alone
ThreadFrame == <<loaded, aside, call, ultra, edge, tqg_recent, recent_outputs, ret, req, last>>

\* entry of generate_enhanced_edge_tweet() in thread t at recursion depth d
ThreadEnter(t, d) ==
    IF edge_df = {}
    THEN threads' = [threads EXCEPT ![t] =
             [ThreadIdle EXCEPT !.pc = "done", !.depth = d, !.calls = threads[t].calls,
                                !.result = Placeholder("No authentic edge content available")]]
    ELSE \E s \in select_generation_style(content_pools) :
            threads' = [threads EXCEPT ![t] =
                [ThreadIdle EXCEPT !.pc = "fresh", !.sel = s, !.depth = d,
                                   !.calls = threads[t].calls]]

\* a request thread calls generate_enhanced_edge_tweet()
ThreadCall(t) ==
    /\ threads[t].pc = "idle"
    /\ threads[t].calls < MaxCalls
    /\ ThreadEnter(t, 0)
    /\ UNCHANGED <<ThreadFrame, recent_content>>

\* get_fresh_edge_content in thread t: one pass of the attempt loop of the
\* current tier, the skip of a tier, or the fallback after the last tier
ThreadFresh(t) ==
    /\ threads[t].pc = "fresh"
    /\ UNCHANGED <<ThreadFrame, recent_content>>
    /\ LET e == threads[t]
       IN  IF e.tier > Len(QualityTiers)
           THEN \E i \in edge_df :
                   threads' = [threads EXCEPT ![t] =
                                  [e EXCEPT !.pc = "clean", !.row = i, !.fallback = TRUE]]
           ELSE LET pool_key == <<e.sel, QualityTiers[e.tier]>>
                IN  IF pool_key \notin DOMAIN content_pools \/ content_pools[pool_key] = {}
                    THEN threads' = [threads EXCEPT ![t] = NextTier(e)]
                    ELSE \E i \in content_pools[pool_key] :
                            LET content == EdgeRows[i].content
                            IN  IF content = NaN
                                THEN threads' = [threads EXCEPT ![t] =
                                        [e EXCEPT !.pc = "done",
                                                  !.result = Raised("AttributeError")]]
                                ELSE IF ~is_content_recent(recent_content, content)
                                THEN threads' = [threads EXCEPT ![t] =
                                        [e EXCEPT !.pc = "clean", !.row = i,
                                                  !.seen = recent_content]]
                                ELSE IF e.attempt + 1 >= MaxAttempts
                                THEN threads' = [threads EXCEPT ![t] = NextTier(e)]
                                ELSE threads' = [threads EXCEPT ![t] =
                                        [e EXCEPT !.attempt = e.attempt + 1]]

\* generate_enhanced_edge_tweet in thread t from the row to the length check
ThreadClean(t) ==
    /\ threads[t].pc = "clean"
    /\ UNCHANGED <<ThreadFrame, recent_content>>
    /\ LET e == threads[t]
           raw_content == EdgeRows[e.row].content
       IN  IF raw_content = NaN
           THEN threads' = [threads EXCEPT ![t] =
                               [e EXCEPT !.pc = "done", !.result = Raised("TypeError")]]
           ELSE IF CleanedEdge[raw_content] = <<>> \/ FinalEdge[raw_content] = <<>>
           THEN IF e.depth + 1 > RecursionLimit
                THEN threads' = [threads EXCEPT ![t] =
                                   [e EXCEPT !.pc = "done",
                                             !.result = Raised("RecursionError")]]
                ELSE ThreadEnter(t, e.depth + 1)
           ELSE threads' = [threads EXCEPT ![t] =
                               [e EXCEPT !.pc = "add",
                                         !.result = Content(FinalEdge[raw_content])]]

\* track_content_usage in thread t: self.recent_content.add(content_hash)
ThreadAdd(t) ==
    /\ threads[t].pc = "add"
    /\ recent_content' =
           recent_content \cup {get_content_hash(EdgeRows[threads[t].row].content)}
    /\ threads' = [threads EXCEPT ![t].pc = "len"]
    /\ UNCHANGED ThreadFrame

\* track_content_usage in thread t: len(self.recent_content) > self.max_recent
ThreadLen(t) ==
    /\ threads[t].pc = "len"
    /\ threads' = [threads EXCEPT ![t].pc =
                      IF Cardinality(recent_content) > EdgeMaxRecent THEN "list" ELSE "done"]
    /\ UNCHANGED <<ThreadFrame, recent_content>>

\* track_content_usage in thread t: list(self.recent_content)[-self.max_recent:],
\* the last max_recent entries of the set in its iteration order, or all of a
\* shorter set
ThreadList(t) ==
    /\ threads[t].pc = "list"
    /\ \E S \in SUBSET recent_content :
           /\ Cardinality(S) = Min({EdgeMaxRecent, Cardinality(recent_content)})
           /\ threads' = [threads EXCEPT ![t].pc = "assign", ![t].snap = recent_content,
                                         ![t].local = S]
    /\ UNCHANGED <<ThreadFrame, recent_content>>

\* track_content_usage in thread t: self.recent_content = set(...)
ThreadAssign(t) ==
    /\ threads[t].pc = "assign"
    /\ recent_content' = threads[t].local
    /\ threads' = [threads EXCEPT ![t].pc = "done",
                                  ![t].lost = recent_content \ threads[t].snap]
    /\ UNCHANGED ThreadFrame

\* generate_enhanced_edge_tweet returns in thread t
ThreadReturn(t) ==
    /\ threads[t].pc = "done"
    /\ threads' = [threads EXCEPT ![t] =
                      [ThreadIdle EXCEPT !.calls = threads[t].calls + 1]]
    /\ UNCHANGED <<ThreadFrame, recent_content>>

\* the edge datasets of a server whose threads share the generator
ThreadStores == {{1}, {1, 2, 3, 4}}

InitThreads ==
    /\ server = "app"
    /\ available = Generators
    /\ \E S \in ThreadStores :
           Constructed(Deployment([exists |-> TRUE, readable |-> TRUE, columns |-> TRUE,
                                   rows |-> S], {}, MissingFile))

NextThreads ==
    \E t \in Threads :
        \/ ThreadCall(t)
        \/ ThreadFresh(t)
        \/ ThreadClean(t)
        \/ ThreadAdd(t)
        \/ ThreadLen(t)
        \/ ThreadList(t)
        \/ ThreadAssign(t)
        \/ ThreadReturn(t)

SpecThreads == InitThreads /\ [][NextThreads]_vars

\* ------------------------------------------------------------ the rate limiter

\* requests per thread
MaxRequests == 2

\* the last tick of the clock
MaxClock == 2

\* what the steps of is_rate_limited leave alone
LimiterFrame ==
    <<loaded, cycle, call, threads, ultra, recent_content, edge, tqg_recent, recent_outputs,
      ret, req, last, active_downloads, workers, served>>

\* time passes
Tick ==
    /\ clock < MaxClock
    /\ clock' = clock + 1
    /\ UNCHANGED <<LimiterFrame, RATE_LIMIT_STORAGE, limiter, admissions>>

\* the timestamps of a list that are later than hour_ago, in order
RECURSIVE StillRecent(_, _)
StillRecent(list, hour_ago) ==
    IF list = <<>> THEN <<>>
    ELSE IF Head(list).at > hour_ago
    THEN <<Head(list)>> \o StillRecent(Tail(list), hour_ago)
    ELSE StillRecent(Tail(list), hour_ago)

\* rate_limit: thread t enters is_rate_limited(ip_address, endpoint_type) and
\* reads the clock
LimiterEnter(t, key) ==
    /\ limiter[t].pc = "idle"
    /\ limiter[t].n < MaxRequests
    /\ limiter' = [limiter EXCEPT ![t] =
           [LimiterIdle EXCEPT !.pc = "clean", !.key = key, !.now = clock,
                               !.hour_ago = clock - Hour, !.n = limiter[t].n + 1]]
    /\ admissions' = [admissions EXCEPT !.overlapped =
           @ \/ \E u \in Threads \ {t} : limiter[u].pc # "idle"]
    /\ UNCHANGED <<LimiterFrame, RATE_LIMIT_STORAGE, clock>>

\* the list comprehension over RATE_LIMIT_STORAGE[ip_address][endpoint_type]
LimiterClean(t) ==
    /\ limiter[t].pc = "clean"
    /\ limiter' = [limiter EXCEPT ![t].pc = "assign",
                                  ![t].kept = StillRecent(RATE_LIMIT_STORAGE[limiter[t].key],
                                                          limiter[t].hour_ago)]
    /\ UNCHANGED <<LimiterFrame, RATE_LIMIT_STORAGE, clock, admissions>>

\* the assignment of the new list to RATE_LIMIT_STORAGE[ip_address][endpoint_type]
LimiterAssign(t) ==
    /\ limiter[t].pc = "assign"
    /\ RATE_LIMIT_STORAGE' = [RATE_LIMIT_STORAGE EXCEPT ![limiter[t].key] = limiter[t].kept]
    /\ limiter' = [limiter EXCEPT ![t].pc = "count", ![t].kept = <<>>]
    /\ UNCHANGED <<LimiterFrame, clock, admissions>>

\* the request of thread t in the records of admissions
LimiterRequest(t) ==
    [thread |-> t, n |-> limiter[t].n, key |-> limiter[t].key, at |-> limiter[t].now]

\* current_count >= max_allowed: return True, or go on to the append
LimiterCount(t) ==
    /\ limiter[t].pc = "count"
    /\ LET current_count == Len(RATE_LIMIT_STORAGE[limiter[t].key])
           max_allowed == MAX_REQUESTS_PER_HOUR[limiter[t].key[2]]
       IN  IF current_count >= max_allowed
           THEN /\ limiter' = [limiter EXCEPT ![t].pc = "idle"]
                /\ admissions' = [admissions EXCEPT !.rejected = @ \cup {LimiterRequest(t)}]
           ELSE /\ limiter' = [limiter EXCEPT ![t].pc = "append"]
                /\ UNCHANGED admissions
    /\ UNCHANGED <<LimiterFrame, RATE_LIMIT_STORAGE, clock>>

\* RATE_LIMIT_STORAGE[ip_address][endpoint_type].append(now); return False
LimiterAppend(t) ==
    /\ limiter[t].pc = "append"
    /\ RATE_LIMIT_STORAGE' = [RATE_LIMIT_STORAGE EXCEPT ![limiter[t].key] =
           Append(@, [at |-> limiter[t].now, by |-> <<t, limiter[t].n>>])]
    /\ limiter' = [limiter EXCEPT ![t].pc = "idle"]
    /\ admissions' = [admissions EXCEPT !.admitted = @ \cup {LimiterRequest(t)}]
    /\ UNCHANGED <<LimiterFrame, clock>>

\* the app server taking requests on its threads
InitLimiter ==
    /\ server = "app"
    /\ available = Generators
    /\ Constructed(Deployment(MissingFile, {}, MissingFile))

NextLimiter ==
    \/ Tick
    \/ \E t \in Threads :
           \/ \E key \in LimitKeys : LimiterEnter(t, key)
           \/ LimiterClean(t)
           \/ LimiterAssign(t)
           \/ LimiterCount(t)
           \/ LimiterAppend(t)

SpecLimiter == InitLimiter /\ [][NextLimiter]_vars

\* -------------------------------------------------------- the video downloader

\* what the steps of the downloader leave alone
DownloadFrame ==
    <<loaded, cycle, call, threads, ultra, recent_content, edge, tqg_recent, recent_outputs,
      ret, req, last, RATE_LIMIT_STORAGE, limiter, admissions>>

\* the paths a progress hook reports in d['filename']: none, or the file
FilePaths == {"", "downloads/video.mp4"}

\* the entry download_video stores for a new download
StartingEntry == [status |-> "starting", progress |-> 0, filepath |-> "", error |-> FALSE]

\* self.active_downloads[download_id] = entry
SetEntry(downloads, download_id, entry) ==
    [i \in DOMAIN downloads \cup {download_id} |->
        IF i = download_id THEN entry ELSE downloads[i]]

\* VideoDownloader.download_video(url) with yt-dlp installed and no download_id
\* given: the id is f"download_{int(time.time())}", the entry is stored and
\* the worker thread started
DownloadVideo(n) ==
    /\ workers[n].pc = "none"
    /\ \A m \in 1..(n - 1) : workers[m].pc # "none"
    /\ LET download_id == clock
       IN  /\ active_downloads' = SetEntry(active_downloads, download_id, StartingEntry)
           /\ workers' = [workers EXCEPT ![n] = [pc |-> "starting", id |-> download_id]]
    /\ UNCHANGED <<DownloadFrame, clock, served>>

\* _progress_hook(d, download_id) with d['status'] == 'downloading', called
\* by the library before the file of the worker is complete
HookDownloading(n) ==
    /\ workers[n].pc \in {"starting", "downloading"}
    /\ \E progress \in {0, 50}, filepath \in FilePaths :
           active_downloads' = [active_downloads EXCEPT ![workers[n].id] =
               [@ EXCEPT !.status = "downloading", !.progress = progress,
                         !.filepath = filepath]]
    /\ workers' = [workers EXCEPT ![n].pc = "downloading"]
    /\ UNCHANGED <<DownloadFrame, clock, served>>

\* _progress_hook(d, download_id) with d['status'] == 'finished'
HookFinished(n) ==
    /\ workers[n].pc \in {"starting", "downloading"}
    /\ \E filepath \in FilePaths :
           active_downloads' = [active_downloads EXCEPT ![workers[n].id] =
               [@ EXCEPT !.status = "processing", !.filepath = filepath]]
    /\ workers' = [workers EXCEPT ![n].pc = "processing"]
    /\ UNCHANGED <<DownloadFrame, clock, served>>

\* download_worker after extract_info returned: mark as completed
WorkerCompleted(n) ==
    /\ workers[n].pc \in {"starting", "downloading", "processing"}
    /\ active_downloads' = [active_downloads EXCEPT ![workers[n].id] =
           [@ EXCEPT !.status = "completed", !.progress = 100]]
    /\ workers' = [workers EXCEPT ![n].pc = "done"]
    /\ UNCHANGED <<DownloadFrame, clock, served>>

\* download_worker's except branch: extract_info raised
WorkerError(n) ==
    /\ workers[n].pc \in {"starting", "downloading", "processing"}
    /\ active_downloads' = [active_downloads EXCEPT ![workers[n].id] =
           [@ EXCEPT !.status = "error", !.error = TRUE]]
    /\ workers' = [workers EXCEPT ![n].pc = "done"]
    /\ UNCHANGED <<DownloadFrame, clock, served>>

\* /api/video/download_file/<download_id> with the downloader constructed;
\* exists is os.path.exists(filepath)
DownloadFile(download_id, exists) ==
    /\ served' =
           IF download_id \notin DOMAIN active_downloads
           THEN [id |-> download_id, status |-> "", answer |-> "404"]
           ELSE LET download_info == active_downloads[download_id]
                IN  IF download_info.status # "completed"
                    THEN [id |-> download_id, status |-> download_info.status,
                          answer |-> "400"]
                    ELSE IF download_info.filepath = "" \/ ~exists
                    THEN [id |-> download_id, status |-> download_info.status,
                          answer |-> "404"]
                    ELSE [id |-> download_id, status |-> download_info.status,
                          answer |-> "file"]
    /\ UNCHANGED <<DownloadFrame, clock, active_downloads, workers>>

InitDownloads ==
    /\ server = "app"
    /\ available = Generators
    /\ Constructed(Deployment(MissingFile, {}, MissingFile))

NextDownloads ==
    \/ Tick
    \/ \E n \in 1..MaxDownloads :
           \/ DownloadVideo(n)
           \/ HookDownloading(n)
           \/ HookFinished(n)
           \/ WorkerCompleted(n)
           \/ WorkerError(n)
    \/ \E download_id \in 0..MaxClock, exists \in BOOLEAN : DownloadFile(download_id, exists)

SpecDownloads == InitDownloads /\ [][NextDownloads]_vars

\* ------------------------------------------- the cycles of the political store

\* the datasets of the cycle runs: a high and a medium row, a medium row and
\* one below every pool, a high row and one below every pool, and medium rows
\* of which one fails the length filter
CycleStores == {{1, 2}, {2, 5}, {1, 5}, {2, 3}, {2, 3, 5}}

\* a script calls UltraEnhancedGenerator.get_fresh_political_content()
CallFresh ==
    /\ ultra_loaded
    /\ \E o \in get_fresh_political_content(ultra) :
           /\ ultra' = o.store
           /\ cycle' = [returned |-> IF o.reset THEN {o.row} \ {0}
                                     ELSE cycle.returned \cup ({o.row} \ {0}),
                        repeat |-> ~o.reset /\ o.row \in cycle.returned]
           /\ ret' = Ret("fresh_political",
                         IF o.row = 0 THEN NoResult ELSE Content(UltraCleaned[o.row]),
                         o.row, FALSE, 0, 0, {})
    /\ UNCHANGED <<loaded, services, call, threads, recent_content, edge, tqg_recent,
                   recent_outputs, req, last>>

InitCycles ==
    /\ server = "none"
    /\ available = Generators
    /\ \E S \in CycleStores :
           Constructed(Deployment(MissingFile, {},
                                  [exists |-> TRUE, readable |-> TRUE, columns |-> TRUE,
                                   rows |-> S]))

NextCycles == CallFresh

SpecCycles == InitCycles /\ [][NextCycles]_vars

\* ------------------------------------------------------- the text functions

\* how far past a length limit the texts handed to the formatters reach
MaxOver == 2

\* the positions of a text that carry a '.', a ',' or a blank: before the
\* minimum length, and on both sides of the two cuts
Marks == {MinLen - 1, OutputTrunc, TruncLen, TruncLen + 1}

MarkChars == {"a", ".", ",", " "}

\* the text of n characters with the characters of m at the marks
MarkedText(n, m) == [i \in 1..n |-> IF i \in Marks THEN m[i] ELSE "a"]

\* the lengths around len(content) < 10, len(cleaned) > 200 and
\* len(content) > 280
FormatLengths ==
    {MinLen - 1, MinLen} \cup ((OutputMax - 1)..(OutputMax + MaxOver))
        \cup ((MaxLen - 1)..(MaxLen + MaxOver))

FormatTexts == {MarkedText(n, m) : n \in FormatLengths, m \in [Marks -> MarkChars]}

\* a script calls apply_length_constraints(content)
CallApplyLengthConstraints ==
    /\ call = NoCall
    /\ \E content \in FormatTexts :
           call' = [fn |-> "apply_length_constraints", arg |-> content,
                    out |-> apply_length_constraints(content)]
    /\ UNCHANGED <<loaded, aside, threads, recent_content, edge, tqg_recent, ultra, recent_outputs, ret, req,
                   last>>

\* generate_auto_text cuts clean_text to the limit
CallAutoTextTruncate ==
    /\ call = NoCall
    /\ \E clean_text \in FormatTexts :
           call' = [fn |-> "auto_text_truncate", arg |-> clean_text,
                    out |-> auto_text_truncate(clean_text)]
    /\ UNCHANGED <<loaded, aside, threads, recent_content, edge, tqg_recent, ultra, recent_outputs, ret, req,
                   last>>

\* a script calls clean_content_for_output(content)
CallCleanContentForOutput ==
    /\ call = NoCall
    /\ \E content \in FormatTexts :
           call' = [fn |-> "clean_content_for_output", arg |-> content,
                    out |-> simple_clean_content_for_output(content)]
    /\ UNCHANGED <<loaded, aside, threads, recent_content, edge, tqg_recent, ultra, recent_outputs, ret, req,
                   last>>

\* raw snippets: up to MaxTokens pieces of posts, one after the other
MaxTokens == 3

RawTokens ==
    {<<"k", "e", "k", " ">>,
     <<"b", "a", "s", "e", "d", " ">>,
     <<"t", "a", "k", "e">>,
     <<">", ">", "1", "2", " ">>,
     <<"&", "a", "m", "p", ";">>,
     <<"g", "t", ";">>,
     <<"1">>,
     <<" ">>,
     <<"a">>}

RECURSIVE RawTextsOf(_)
RawTextsOf(n) ==
    IF n = 0 THEN {<<>>}
    ELSE RawTextsOf(n - 1) \cup {t \o k : t \in RawTextsOf(n - 1), k \in RawTokens}

RawTexts == RawTextsOf(MaxTokens)

\* a script calls EnhancedUltimateEdgeGenerator.clean_edge_for_output(content)
CallCleanEdgeForOutput ==
    /\ call = NoCall
    /\ \E content \in RawTexts :
           call' = [fn |-> "clean_edge_for_output", arg |-> content,
                    out |-> clean_edge_for_output(content)]
    /\ UNCHANGED <<loaded, aside, threads, recent_content, edge, tqg_recent, ultra, recent_outputs, ret, req,
                   last>>

\* a script calls UltraEnhancedGenerator.clean_content(text)
CallCleanContent ==
    /\ call = NoCall
    /\ \E text \in RawTexts :
           call' = [fn |-> "clean_content", arg |-> text, out |-> clean_content(text)]
    /\ UNCHANGED <<loaded, aside, threads, recent_content, edge, tqg_recent, ultra, recent_outputs, ret, req,
                   last>>

\* a script that makes one call of a text function, of generators without a
\* dataset
InitText ==
    /\ server = "none"
    /\ available = Generators
    /\ Constructed(Deployment(MissingFile, {}, MissingFile))

NextText ==
    \/ CallApplyLengthConstraints
    \/ CallAutoTextTruncate
    \/ CallCleanContentForOutput
    \/ CallCleanEdgeForOutput
    \/ CallCleanContent

SpecText == InitText /\ [][NextText]_vars

\* ------------------------------------------------------------------ properties

\* the dispatch table the design states: cumulative upper bounds in hundredths,
\* the generators in their fixed order, and the designated fallback
CumulativeBounds == <<20, 40, 60, 70, 80, 90>>

DispatchOrder == <<"enhanced_edge", "simple_edge", "ultra_enhanced", "transcendent",
                   "simple_transcendental", "csv">>

FallbackGenerator == "csv"

SliceOf(r) ==
    LET ks == {k \in 1..Len(CumulativeBounds) : r < CumulativeBounds[k]}
    IN  IF ks = {} THEN FallbackGenerator
        ELSE DispatchOrder[CHOOSE k \in ks : \A j \in ks : k <= j]

\* C1: every finished /generate iteration selected the generator whose slice
\* [lower, upper) holds the draw, the first in the fixed order whose cumulative
\* bound exceeds it, and the designated fallback generator for a draw at or
\* above the last bound; it invoked that generator and no other
C1_SliceSelected ==
    last.endpoint = "/generate" =>
        /\ last.generator = SliceOf(last.rand_val)
        /\ last.invoked \subseteq {last.generator}
        /\ last.generator \in available => last.invoked = {last.generator}
        /\ (last.rand_val >= CumulativeBounds[Len(CumulativeBounds)]
              /\ FallbackGenerator \in available)
           => last.generator_type = "simple_csv_fallback"

\* a draw on the lower bound of the simple-enhanced-edge slice went to that
\* generator, and a draw on the last bound to the fallback generator
C1_Witness ==
    /\ last.endpoint = "/generate"
    /\ \/ last.rand_val = 20 /\ last.invoked = {"simple_edge"}
       \/ last.rand_val = 90 /\ last.invoked = {"csv"}
              /\ last.generator_type = "simple_csv_fallback"

\* C2: at every route the finished iteration used the slice the draw has when
\* all generators are available, and when the owner of that slice is
\* unavailable the tweet is its 'not available' string and no generator was
\* invoked
C2_NoRedistribution ==
    last.endpoint # "none" =>
        LET slot == route_slot(last.endpoint, last.rand_val, Generators)
        IN  /\ last.generator = slot.gen
            /\ slot.gen \notin available =>
                   /\ last.tweet = Placeholder(slot.na)
                   /\ last.invoked = {}

\* the batch endpoint gave the slice of the unavailable simple edge generator
\* to the enhanced edge generator
C2_Redistributed ==
    /\ last.endpoint = "/api/generate-tweet-batch"
    /\ last.rand_val < 30
    /\ "simple_edge" \notin available
    /\ last.invoked = {"enhanced_edge"}

\* C3: a generate_enhanced_edge_tweet call whose get_fresh_edge_content found
\* every sample of the tiers recent and took the whole-store fallback ends, and
\* ends with non-empty content
C3_FallbackReturnsContent ==
    (edge.pc = "done" /\ edge.sampled /\ edge.tier > Len(QualityTiers)) =>
        edge.result.kind = "content" /\ edge.result.text # <<>>

\* the fallback drew the row without content and the call raised
C3_FallbackRaised ==
    /\ edge.pc = "done"
    /\ edge.sampled
    /\ edge.tier > Len(QualityTiers)
    /\ edge.result = Raised("TypeError")

\* the pools of a category a TranscendentQuoteGenerator call must be able to
\* draw from when it falls through the tiers of the category: the highest tier
\* that has a pool
TqgFirstPools(pools) ==
    {k \in DOMAIN pools :
        \A t \in 1..Len(TqgTiers) :
            (TqgTiers[t] = k[2]) =>
                \A u \in 1..(t - 1) : <<k[1], TqgTiers[u]>> \notin DOMAIN pools}

\* C4: with the highest tier pool of a category empty or absent and a lower
\* tier pool of it not empty, get_fresh_edge_content hands back a row of a
\* lower tier (or of the fallback behind the tiers) and
\* generate_enhanced_content draws from the category's lower tier pool
C4_FallsThroughTiers ==
    /\ (edge.pc = "clean"
          /\ (<<edge.sel, "high">> \notin DOMAIN content_pools
                \/ content_pools[<<edge.sel, "high">>] = {})
          /\ \E q \in {"medium", "good"} :
                 /\ <<edge.sel, q>> \in DOMAIN content_pools
                 /\ content_pools[<<edge.sel, q>>] # {})
       => edge.tier >= 2
    /\ (ret.gen = "transcendent" /\ tqg_df # {})
       => \A k \in TqgFirstPools(tqg_pools) : k[2] # "elite" => k \in ret.pools

\* generate_enhanced_content reported failure with the good pool of a category
\* that has no higher pool never drawn from
C4_LowerTierIgnored ==
    /\ ret.gen = "transcendent"
    /\ ret.result = TupleResult(<<>>, "no_suitable_content")
    /\ \E k \in DOMAIN tqg_pools : k[2] = "good" /\ k \in TqgFirstPools(tqg_pools)
                                   /\ k \notin ret.pools

\* C5: every generate call of the four generators hands the caller a string:
\* it neither raises nor hands back a tuple or None
C5_AlwaysAString ==
    /\ edge.pc = "done" => edge.result.kind \in {"content", "placeholder"}
    /\ ret.gen # "none" => ret.result.kind \in {"content", "placeholder"}

\* generate_tweet raised on the attributes a missing dataset file leaves unset
C5_SimpleRaised ==
    /\ ret.gen = "simple_edge"
    /\ ret.result = Raised("AttributeError")

\* C6: the recency set of each generator holds at most max_recent fingerprints
\* whenever no record operation is in progress
C6_RecencyBounded ==
    /\ Cardinality(recent_content) <= EdgeMaxRecent
    /\ Cardinality(tqg_recent) <= TqgMaxRecent
    /\ Cardinality(recent_outputs) <= UltraMaxRecent

\* a record operation on a full set has cut it back to max_recent
C6_Witness ==
    /\ edge.pc = "done"
    /\ edge.evicted
    /\ Cardinality(recent_content) = EdgeMaxRecent

\* C7: when generate_enhanced_edge_tweet has returned generated content, the
\* fingerprint of the emitted snippet is in the recency set
C7_EmittedIsRecent ==
    (edge.pc = "done" /\ edge.result.kind = "content") =>
        is_content_recent(recent_content, EdgeRows[edge.row].content)

\* the record step evicted the fingerprint it had just added
C7_EmittedEvicted ==
    /\ edge.pc = "done"
    /\ edge.result.kind = "content"
    /\ edge.evicted
    /\ ~is_content_recent(recent_content, EdgeRows[edge.row].content)

\* C8: the retry of generate_enhanced_edge_tweet after an empty or too short
\* cleaning result is bounded: no call retries until the interpreter's
\* recursion limit stops it
C8_RetryBounded ==
    ~(edge.pc = "done" /\ edge.result = Raised("RecursionError"))

\* on a store whose rows all clean to empty the retries reached the limit
C8_RetriedToLimit ==
    /\ edge.pc = "done"
    /\ edge.result = Raised("RecursionError")
    /\ edge_df # {}
    /\ \A i \in edge_df : EdgeRows[i].content # NaN /\ CleanedEdge[EdgeRows[i].content] = <<>>

\* C9: with an empty dataset generate_enhanced_edge_tweet returns its 'no
\* content available' string and generate_tweet its 'pool exhausted' string
C9_EmptyStorePlaceholder ==
    /\ (edge.pc = "done" /\ edge_df = {})
       => edge.result = Placeholder("No authentic edge content available")
    /\ (ret.gen = "simple_edge" /\ simple.df = {})
       => ret.result = Placeholder("Content pool exhausted")

\* with the dataset file missing generate_tweet raised for a draw below 0.7
C9_MissingFileRaised ==
    /\ ret.gen = "simple_edge"
    /\ simple.df = {}
    /\ ~simple.has_priority_pools
    /\ ret.rand < PriorityChance
    /\ ret.result.kind = "raised"

\* C10: a /generate iteration never aborts the request, and a tweet that is a
\* placeholder string is appended with a fallback generator tag, not with the
\* name of a real generator
C10_PlaceholderTaggedFallback ==
    last.endpoint = "/generate" =>
        /\ req.status = 200
        /\ (last.outcome = "appended" /\ last.tweet.kind = "placeholder")
           => last.generator_type \in {"fallback", "system_fallback"}

\* the placeholder of the empty edge store was appended under the name of the
\* enhanced edge generator
C10_PlaceholderTaggedReal ==
    /\ last.endpoint = "/generate"
    /\ last.outcome = "appended"
    /\ last.tweet = Placeholder("No authentic edge content available")
    /\ last.generator_type = "enhanced_ultimate_edge"

\* C11: every formatter hands back at most its limit: apply_length_constraints
\* and the cut of generate_auto_text at most 280 characters,
\* clean_content_for_output at most 200
C11_LengthBounded ==
    /\ call.fn \in {"apply_length_constraints", "auto_text_truncate"}
           => Len(call.out) <= MaxLen
    /\ call.fn = "clean_content_for_output" => Len(call.out) <= OutputMax

\* a text over the limit with no '.' and no ',' in its first 277 characters
\* came back 280 characters long
C11_Witness ==
    /\ call.fn = "apply_length_constraints"
    /\ Len(call.arg) > MaxLen
    /\ Len(call.out) = MaxLen

\* C12: apply_length_constraints hands a text of at most 280 characters back
\* unchanged
C12_ShortUnchanged ==
    (call.fn = "apply_length_constraints" /\ Len(call.arg) <= MaxLen)
        => call.out = call.arg

\* C12, amended: apply_length_constraints hands a text of 10 to 280 characters
\* back unchanged and answers a text of fewer than 10 characters with the empty
\* string
C12_InRangeUnchanged ==
    call.fn = "apply_length_constraints" =>
        /\ (MinLen <= Len(call.arg) /\ Len(call.arg) <= MaxLen) => call.out = call.arg
        /\ Len(call.arg) < MinLen => call.out = <<>>

\* a text of exactly 280 characters came back unchanged
C12_Witness ==
    /\ call.fn = "apply_length_constraints"
    /\ Len(call.arg) = MaxLen
    /\ call.out = call.arg

\* a text of 9 characters came back empty
C12_ShortDropped ==
    /\ call.fn = "apply_length_constraints"
    /\ Len(call.arg) = MinLen - 1
    /\ call.out = <<>>

\* what the preference order gives for a text over the limit when '.' and ','
\* are looked for in its first n characters: the text up to and with the last
\* '.', else the text before the last ',', else 277 characters and '...'
PreferredCut(text, n) ==
    LET dots == {i \in 1..n : text[i] = "."}
        commas == {i \in 1..n : text[i] = ","}
    IN  IF dots # {} THEN SubSeq(text, 1, Max(dots))
        ELSE IF commas # {} THEN SubSeq(text, 1, Max(commas) - 1)
        ELSE SubSeq(text, 1, TruncLen) \o <<".", ".", ".">>

\* C13: a text over 280 characters is cut at its last '.' inside the limit of
\* 280, else at its last ',' inside the limit, else hard with an ellipsis, and
\* apply_length_constraints and generate_auto_text cut alike
C13_CutInsideLimit ==
    (call.fn \in {"apply_length_constraints", "auto_text_truncate"}
        /\ Len(call.arg) > MaxLen)
    => /\ call.out = PreferredCut(call.arg, MaxLen)
       /\ apply_length_constraints(call.arg) = auto_text_truncate(call.arg)

\* C13, amended: the '.' and the ',' are looked for in the first 277 characters
\* only; the two implementations cut alike
C13_CutInsideWindow ==
    (call.fn \in {"apply_length_constraints", "auto_text_truncate"}
        /\ Len(call.arg) > MaxLen)
    => /\ call.out = PreferredCut(call.arg, TruncLen)
       /\ apply_length_constraints(call.arg) = auto_text_truncate(call.arg)

\* a text with no '.' and its last ',' at 197 was cut before the ','
C13_Witness ==
    /\ call.fn = "auto_text_truncate"
    /\ Len(call.arg) > MaxLen
    /\ \A i \in 1..TruncLen : call.arg[i] # "."
    /\ call.arg[OutputTrunc] = ","
    /\ Len(call.out) = OutputTrunc - 1

\* a '.' at 278, inside the limit and outside the first 277 characters, was
\* passed over
C13_DotPassedOver ==
    /\ call.fn = "apply_length_constraints"
    /\ Len(call.arg) > MaxLen
    /\ call.arg[TruncLen + 1] = "."
    /\ \A i \in 1..TruncLen : call.arg[i] \notin {".", ","}
    /\ Len(call.out) = MaxLen

C15_NoEmptyPool ==
    /\ \A k \in DOMAIN content_pools : content_pools[k] # {}
    /\ \A k \in DOMAIN tqg_pools : tqg_pools[k] # {}

\* a generate call has returned on a generator whose index holds the key of a
\* tier no snippet of the category falls in
C15_EmptyPoolPresent ==
    /\ edge.pc = "done"
    /\ \E k \in DOMAIN content_pools : content_pools[k] = {}

\* ---- C16
\* C16: the content cleaners are idempotent: cleaning the result of
\* clean_edge_for_output or of clean_content again gives the same text
C16_CleanIdempotent ==
    /\ call.fn = "clean_edge_for_output" => clean_edge_for_output(call.out) = call.out
    /\ call.fn = "clean_content" => clean_content(call.out) = call.out

\* clean_edge_for_output gave a text that a second pass changes
C16_EdgeSecondPassDiffers ==
    /\ call.fn = "clean_edge_for_output"
    /\ clean_edge_for_output(call.out) # call.out

\* clean_content gave a text that a second pass changes
C16_UltraSecondPassDiffers ==
    /\ call.fn = "clean_content"
    /\ clean_content(call.out) # call.out

\* a snippet with a post reference cleaned twice is the same as cleaned once,
\* without the reference
C16_PostRefStable ==
    /\ call.fn = "clean_edge_for_output"
    /\ call.arg = <<">", ">", "1", "2", " ", "t", "a", "k", "e">>
    /\ call.out = <<"t", "a", "k", "e">>
    /\ clean_edge_for_output(call.out) = call.out

\* ---- C17
\* C17: constructing a generator on a missing or corrupt dataset file never
\* raises, and leaves the generator with an empty store and no pools, which is
\* what every later generate call finds
C17_LoadNeverRaises ==
    LET unusable(file) == ~file.exists \/ ~file.readable \/ ~file.columns
    IN  /\ edge_init_result.kind # "raised"
        /\ unusable(disk.edge_file) =>
               /\ edge_df = {}
               /\ DOMAIN content_pools = {}
               /\ simple.df = {} /\ simple.short_pool = {} /\ simple.medium_pool = {}
        /\ unusable(disk.ultra_file) =>
               /\ ultra.primary_data = <<>>
               /\ DOMAIN ultra.pools.all_quality_pool = {}

\* EnhancedUltimateEdgeGenerator() raised on a file read_csv parsed
C17_ConstructorRaised ==
    /\ disk.edge_file.exists /\ disk.edge_file.readable
    /\ edge_init_result = Raised("KeyError")
    /\ ret.gen = "simple_edge"

\* ---- C19
\* C19: no step changes the store or a pool of a generator: after any sequence
\* of generate calls each holds the same snippets under the same row indices
\* as after construction
C19_StoreImmutable ==
    [][/\ edge_df' = edge_df
       /\ content_pools' = content_pools
       /\ simple' = simple
       /\ tqg_df' = tqg_df
       /\ tqg_pools' = tqg_pools
       /\ ultra'.primary_data = ultra.primary_data
       /\ ultra'.pools = ultra.pools]_vars

\* after a generate_enhanced_tweet call a row index of the all_quality_pool
\* names another snippet in primary_data
C19_IndexMismatch ==
    /\ ret.gen = "ultra_enhanced"
    /\ \E i \in DOMAIN ultra.pools.all_quality_pool :
           ultra.primary_data[i] # ultra.pools.all_quality_pool[i]

\* ---- C20
\* C20: a drawn snippet whose cleaned text is empty or too short is a failed
\* attempt: the call that retried ends with generated text, neither an
\* exception nor a placeholder, and the recency set holds only fingerprints
\* of snippets that were emitted
C20_FailedDrawRetried ==
    /\ \A h \in recent_content :
           \E i \in edge_df : /\ EdgeRows[i].content # NaN
                               /\ h = get_content_hash(EdgeRows[i].content)
                               /\ FinalEdge[EdgeRows[i].content] # <<>>
    /\ (edge.pc = "done" /\ edge.depth > 0) => edge.result.kind = "content"

\* a call that drew a snippet with a too short cleaned text and retried ended
\* with the interpreter's RecursionError
C20_RetryRaised ==
    /\ edge.pc = "done"
    /\ edge.depth > 0
    /\ edge.row # 0
    /\ EdgeRows[edge.row].content # NaN
    /\ FinalEdge[EdgeRows[edge.row].content] = <<>>
    /\ edge.result = Raised("RecursionError")
    /\ recent_content = {}

\* a call that drew a snippet with a too short cleaned text retried and emitted
\* another snippet, the only one it recorded
C20_RetrySucceeded ==
    /\ edge.pc = "done"
    /\ edge.depth > 0
    /\ edge.result.kind = "content"
    /\ recent_content = {get_content_hash(EdgeRows[edge.row].content)}

C18_RecordLost ==
    /\ \A t \in Threads : threads[t].pc = "done" /\ threads[t].result.kind = "content"
    /\ threads[1].snap # {} /\ threads[2].snap # {}
    /\ \E t, u \in Threads :
           /\ t # u
           /\ get_content_hash(EdgeRows[threads[u].row].content) \in threads[t].lost
           /\ get_content_hash(EdgeRows[threads[u].row].content) \notin recent_content

\* ---- C21
\* C21: the three call sites select the same generator: the generator a
\* finished iteration selected is the one the chains of generate_tweets, of
\* generate_auto_text and of generate_tweet_batch select for the same draw and
\* the same available generators
C21_SameSelection ==
    last.endpoint # "none" =>
        /\ last.generator = generate_tweets_slot(last.rand_val).gen
        /\ last.generator = generate_auto_text_slot(last.rand_val).gen
        /\ last.generator = generate_tweet_batch_slot(last.rand_val, available).gen

\* with every generator available the batch endpoint gave a draw below 0.2 to
\* the simple edge generator, which /generate gives to the enhanced edge
\* generator
C21_BatchSelectsOther ==
    /\ last.endpoint = "/api/generate-tweet-batch"
    /\ available = Generators
    /\ last.rand_val < 20
    /\ last.invoked = {"simple_edge"}
    /\ generate_tweets_slot(last.rand_val).gen = "enhanced_edge"

\* ---- C22
\* C22: a row get_fresh_edge_content returns from a tier pool, not through the
\* fallback over the whole store, is not recent: its fingerprint is not in
\* recent_content when it is returned
C22_TierDrawNotRecent ==
    (edge.pc = "clean" /\ edge.tier <= Len(QualityTiers)) =>
        /\ EdgeRows[edge.row].content # NaN
        /\ get_content_hash(EdgeRows[edge.row].content) \notin recent_content

\* with a non-empty recency set, a tier pool gave a row after a sample of it
\* had been rejected as recent
C22_Witness ==
    /\ edge.pc = "clean"
    /\ edge.tier <= Len(QualityTiers)
    /\ edge.sampled
    /\ recent_content # {}
    /\ get_content_hash(EdgeRows[edge.row].content) \notin recent_content

\* ---- C23
\* C23: generate_enhanced_content never returns a snippet that was used
\* recently: the fingerprint of the row it returns is not in recent_content at
\* the moment the row is selected
C23_NeverReturnsRecent ==
    (ret.gen = "transcendent" /\ ret.result.kind = "tuple" /\ ret.row # 0) =>
        ~ret.was_recent

\* a call returned a row whose fingerprint was in recent_content: the set held
\* more entries than the bypass size, so the recency test was skipped
C23_ReturnedRecent ==
    /\ ret.gen = "transcendent"
    /\ ret.result.kind = "tuple"
    /\ ret.row # 0
    /\ ret.was_recent
    /\ tqg_get_content_hash(TqgRows[ret.row].content) \in tqg_recent


\* ---- C24
\* C24: whenever generate_category_specific_tweet(category) returns generated
\* content, the snippet it emits has the requested category
C24_EmitsRequestedCategory ==
    (edge.pc = "done" /\ edge.style # "None" /\ edge.result.kind = "content") =>
        EdgeRows[edge.row].category = edge.style

\* a category call returned the text of a snippet of another category: no tier
\* pool of the category gave a row, and the row came from the whole dataset
C24_OtherCategoryEmitted ==
    /\ edge.pc = "done"
    /\ edge.style # "None"
    /\ edge.result.kind = "content"
    /\ edge.tier > Len(QualityTiers)
    /\ EdgeRows[edge.row].category # edge.style
    /\ edge.result.text = FinalEdge[EdgeRows[edge.row].content]

\* ---- C25
\* C25: get_fresh_political_content returns no dataset row twice within one
\* cycle: a row it returns was not returned before since used_content_indices
\* was last cleared
C25_NoRowTwiceInCycle ==
    ret.gen = "fresh_political" => ~cycle.repeat

\* a call returned a row a second time in one cycle: after a reshuffle the
\* row stands under one label in primary_data and under another in a pool, and
\* only one of the two labels was in used_content_indices
C25_RowReturnedTwice ==
    /\ ret.gen = "fresh_political"
    /\ ret.row # 0
    /\ cycle.repeat
    /\ ret.row \in cycle.returned
    /\ \E i \in DOMAIN ultra.primary_data, j \in DOMAIN ultra.pools.all_quality_pool :
           /\ i # j
           /\ ultra.primary_data[i] = ret.row
           /\ ultra.pools.all_quality_pool[j] = ret.row
           /\ {i, j} \subseteq ultra.used_content_indices

\* ---- C26
\* the rows of the store that pass the filters of get_fresh_political_content
UsableRows(store) ==
    {r \in {store.primary_data[i] : i \in DOMAIN store.primary_data} :
        /\ UltraRows[r].content # NaN
        /\ Len(Strip(UltraCleaned[r])) >= UltraMinLen
        /\ Len(UltraCleaned[r]) <= UltraMaxLen}

\* C26: the generator is never permanently exhausted: with a row of the
\* dataset passing the quality filters, a call of get_fresh_political_content
\* can still return content or move the store on (mark an index, or clear
\* used_content_indices)
C26_NeverExhausted ==
    (ultra_loaded /\ UsableRows(ultra) # {}) =>
        get_fresh_political_content(ultra) # {[row |-> 0, store |-> ultra, reset |-> FALSE]}

\* the store is exhausted for good: a usable row was never used, the call just
\* made returned None, and every call from here returns None and leaves
\* used_content_indices as it is, below the size that triggers the reset
C26_Exhausted ==
    /\ ret.gen = "fresh_political"
    /\ ret.row = 0
    /\ UsableRows(ultra) \ cycle.returned # {}
    /\ Cardinality(ultra.used_content_indices) < Len(ultra.primary_data)
    /\ get_fresh_political_content(ultra) = {[row |-> 0, store |-> ultra, reset |-> FALSE]}

\* ---- C27
\* C27: a single generate_enhanced_tweet call regenerates at most once after
\* finding its output hash in recent_outputs, and every text it returns ends
\* with ' - Remilio'
C27_RegeneratesOnce ==
    ret.gen = "ultra_enhanced" =>
        /\ ret.regens <= 1
        /\ ret.result.kind = "content" =>
               /\ Len(ret.result.text) >= Len(Signature)
               /\ Drop(ret.result.text, Len(ret.result.text) - Len(Signature)) = Signature
        /\ ret.result.kind = "placeholder" => ret.result.name \in UltraFallbacks

\* one call found its output in recent_outputs twice and generated a third
\* text, which it returned with the signature
C27_RegeneratedTwice ==
    /\ ret.gen = "ultra_enhanced"
    /\ ret.regens = 2
    /\ ret.result.kind = "content"
    /\ Drop(ret.result.text, Len(ret.result.text) - Len(Signature)) = Signature
    /\ ultra_hash(ret.result.text) \in recent_outputs

\* ---- C28
\* a step that ends a dispatch iteration of /generate
C28_IterationEnds ==
    /\ req.endpoint = "/generate"
    /\ req.pc \in {"loop", "edge"}
    /\ req'.i # req.i

\* C28: for count = n, /generate runs exactly n dispatch iterations and returns
\* at most n tweets, each with a text of at least 10 characters; an iteration
\* that raises or yields an empty or too short tweet appends nothing, and the
\* loop goes on to the remaining iterations
C28_LoopRunsCountTimes ==
    [][/\ (req'.endpoint = "/generate" /\ req'.pc = "responded") =>
              /\ req'.i = req'.count
              /\ req'.tweets <= req'.count
       /\ C28_IterationEnds =>
              /\ req'.i = req.i + 1
              /\ req'.i <= req'.count
              /\ req'.pc = (IF req'.i < req'.count THEN "loop" ELSE "responded")
              /\ last'.outcome \in {"appended", "skipped", "caught"}
              /\ req'.tweets = (IF last'.outcome = "appended" THEN req.tweets + 1
                                ELSE req.tweets)
              /\ last'.outcome = "appended" =>
                     /\ last'.text = last'.tweet
                     /\ last'.tweet.kind \in {"content", "placeholder"}
                     /\ last'.tweet.kind = "content" => Len(last'.tweet.text) >= MinLen
              /\ (last'.tweet.kind \in {"raised", "None"}
                  \/ (last'.tweet.kind = "content" /\ Len(last'.tweet.text) < MinLen)) =>
                     last'.outcome # "appended"]_vars

\* a request with count 2 responded with one tweet: one iteration raised or was
\* skipped, and the loop ran the other iteration all the same
C28_SkippedThenAppended ==
    /\ req.endpoint = "/generate"
    /\ req.pc = "responded"
    /\ req.count = 2
    /\ req.i = 2
    /\ req.tweets = 1
    /\ last.outcome = "appended"
    /\ last.tweet.kind = "content"

\* ---- C29
\* the requests of key k that is_rate_limited admitted in the hour ending at w
AdmittedInWindow(k, w) ==
    {a \in admissions.admitted : a.key = k /\ a.at > w - Hour /\ a.at <= w}

\* C29: for every client IP and endpoint type the requests is_rate_limited
\* admits within any one-hour window never exceed the configured maximum, and
\* a rejected request is not among the stored timestamps, concurrent requests
\* included
C29_LimitNeverExceeded ==
    /\ \A k \in LimitKeys, w \in 0..MaxClock :
           Cardinality(AdmittedInWindow(k, w)) <= MAX_REQUESTS_PER_HOUR[k[2]]
    /\ \A k \in LimitKeys, r \in admissions.rejected :
           \A i \in DOMAIN RATE_LIMIT_STORAGE[k] :
               RATE_LIMIT_STORAGE[k][i].by # <<r.thread, r.n>>

\* two threads passed the count test of one key before either appended: both
\* requests were admitted at the same time, one more than the maximum
C29_LimitExceeded ==
    \E k \in LimitKeys, w \in 0..MaxClock :
        /\ admissions.overlapped
        /\ Cardinality(AdmittedInWindow(k, w)) > MAX_REQUESTS_PER_HOUR[k[2]]
        /\ Len(RATE_LIMIT_STORAGE[k]) > MAX_REQUESTS_PER_HOUR[k[2]]

\* ---- C30
\* the order of the statuses of a tracked download
StatusRank(status) ==
    CASE status = "starting" -> 1
      [] status = "downloading" -> 2
      [] status = "processing" -> 3
      [] OTHER -> 4

\* two download_video calls with one download_id
SharedEntry(w) ==
    \E m, n \in DOMAIN w : m # n /\ w[m].pc # "none" /\ w[n].pc # "none" /\ w[m].id = w[n].id

\* C30: the status of a tracked download only moves forward (starting,
\* downloading, processing, then completed or error) and never changes once it
\* is completed or error; distinct download_video calls never share an entry;
\* download_file serves a file only for an entry whose status is completed
C30_StatusOnlyForward ==
    [][/\ \A id \in DOMAIN active_downloads :
              /\ id \in DOMAIN active_downloads'
              /\ StatusRank(active_downloads'[id].status)
                     >= StatusRank(active_downloads[id].status)
              /\ active_downloads[id].status \in {"completed", "error"} =>
                     active_downloads'[id].status = active_downloads[id].status
       /\ ~SharedEntry(workers')
       /\ served'.answer = "file" =>
              /\ served'.status = "completed"
              /\ served'.id \in DOMAIN active_downloads
              /\ active_downloads[served'.id].status = "completed"]_vars

\* two download_video calls made within one second share download_id and
\* entry: the worker of the first has ended, so the entry was completed or
\* error, and the second call has put it back to an earlier status
C30_FinishedEntryRestarted ==
    /\ SharedEntry(workers)
    /\ workers[1].pc = "done"
    /\ workers[2].pc \in {"starting", "downloading", "processing"}
    /\ active_downloads[workers[1].id].status \in {"starting", "downloading", "processing"}

====
